---- MODULE Spec2Model ----
(***************************************************************************)
(* A model of the checkpoint / retry core of themis                        *)
(* (src/themis/checkpoint.py, src/themis/answer.py, src/get_paus.py) and   *)
(* of its system combiners (src/themis/analyze.py, src/themis/metrics.py). *)
(*                                                                         *)
(* Eight specifications share the variables:                               *)
(*   Spec       the batch runner (get_items / answer_questions) over one   *)
(*              DataFrameCheckpoint file, with hard kills and restarts;    *)
(*   SpecStore  the DataFrameCheckpoint API driven freely                  *)
(*              (open, write, flush, close, reopen);                       *)
(*   SpecRetry  retry(function, times);                                    *)
(*   SpecJson   the IndexedJsonCheckpoint of get_paus.py;                  *)
(*   SpecCombo  oracle_combination, fallback_combination and voting_router *)
(*              applied to a collated table;                               *)
(*   SpecMetrics precision, questions_attempted, confidence_thresholds and  *)
(*              the rank standardization of src/themis/metrics.py;         *)
(*   SpecPau    get_items over a PauCheckpoint / TrecFileCheckpoint, whose  *)
(*              get_item may return None;                                  *)
(*   SpecCorpus download_corpus_from_xmgr (src/themis/xmgr.py) under retry, *)
(*              with its two checkpoint files, hard kills and restarts.    *)
(*                                                                         *)
(* Python values are records [type, text]; the checkpoint file holds text  *)
(* rows.  to_csv turns values into text and read_csv turns text back into  *)
(* values with pandas' type inference, so the round trip is not the        *)
(* identity.  A row is the unit of persistence: a kill never tears a row.  *)
(***************************************************************************)
EXTENDS Integers, Sequences, FiniteSets, TLC

VARIABLES
    fileExists,     \* the checkpoint file exists on disk
    file,           \* its lines, each a tuple of text fields
    output_file,    \* the store's handle: "none", "open" or "closed"
    recovered,      \* DataFrameCheckpoint.recovered
    need_header,    \* DataFrameCheckpoint.need_header
    buffer,         \* DataFrameCheckpoint.buffer, a sequence of value tuples
    interval,       \* DataFrameCheckpoint.interval (None or a positive int)
    pc,             \* position of the batch runner / of the store's client
    names,          \* the items given to the batch runner
    names_to_get,   \* sorted(set(names) - recovered)
    i,              \* index of the next item of names_to_get
    item,           \* result of get_item awaiting checkpoint.write
    asked,          \* history: items get_item was invoked on in this run
    completed,      \* history: items whose get_item returned in this run
    written,        \* history: text rows handed to checkpoint.write in this run
    runs,           \* history: number of runs started
    runner,         \* the batch runner in use: "get_items" or "answer_questions"
    headerWrites,   \* history: number of header rows written to the file
    openedExisting, \* history: the current store found the file on disk
    lastOp,         \* history: last store operation and what it did
    flushes,        \* history: number of flushes of the current store
    times,          \* retry: the remaining attempts (None or an int)
    k0,             \* retry: the value of times retry was first called with
    fails,          \* retry: fails[n] iff the n-th call of function raises
    calls,          \* retry: number of calls of function so far
    sleeps,         \* retry: number of time.sleep(60) calls so far
    rpc,            \* retry: "call", "returned", "raised" or "assert"
    jExists,        \* IndexedJsonCheckpoint: the file exists on disk
    jItems,         \* the item list in the file (the items' index values)
    jTorn,          \* the file holds an incomplete JSON document
    jbuffer,        \* IndexedJsonCheckpoint.buffer (the keys of the dict)
    jinterval,      \* IndexedJsonCheckpoint.interval
    jlast,          \* history: the last operation, its buffer and the file before it
    jops,           \* history: number of operations so far
    systems_data,   \* the collated table given to a combiner, a sequence of rows
    combined,       \* the rows the last combiner returned
    cstat,          \* the last combiner call: its name, arguments and outcome
    nones,          \* the items for which get_item returns None
    invalid,        \* PauCheckpoint.invalid / TrecFileCheckpoint.invalid
    document_ids_csv,   \* document_ids.csv: whether it exists, and its lines
    corpus_csv,         \* corpus.csv: whether it exists, and its lines
    downloaded_document_ids,    \* the DataFrameCheckpoint on document_ids.csv
    corpus,             \* the DataFrameCheckpoint on corpus.csv
    document_ids,       \* the document ids the loop of the download goes through
    checkpoint_frequency,   \* the download's checkpoint_frequency
    max_docs,           \* the download's max_docs
    fetched             \* history: the documents whose PAUs this process has got

storeVars == <<fileExists, file, output_file, recovered, need_header, buffer, interval>>
runVars   == <<pc, names, runner, names_to_get, i, item, asked, completed, written, runs>>
histVars  == <<headerWrites, openedExisting, lastOp, flushes>>
retryVars == <<times, k0, fails, calls, sleeps, rpc>>
jsonVars  == <<jExists, jItems, jTorn, jbuffer, jinterval, jlast, jops>>
comboVars == <<systems_data, combined, cstat>>
pauVars   == <<nones, invalid>>
diskVars  == <<document_ids_csv, corpus_csv>>
corpusVars == <<diskVars, downloaded_document_ids, corpus, document_ids,
                checkpoint_frequency, max_docs, fetched>>
vars      == <<storeVars, runVars, histVars, retryVars, jsonVars, comboVars, pauVars,
               corpusVars>>

\* What the actions on the DataFrameCheckpoint, and those of retry, leave alone.
offStoreVars == <<retryVars, jsonVars, comboVars, pauVars, corpusVars>>
offRetryVars == <<storeVars, runVars, histVars, jsonVars, comboVars, pauVars, corpusVars>>
offJsonVars  == <<storeVars, runVars, histVars, retryVars, comboVars, pauVars, corpusVars>>
offComboVars == <<storeVars, runVars, histVars, retryVars, jsonVars, pauVars, corpusVars>>
offPauVars   == <<retryVars, jsonVars, comboVars, corpusVars>>
offCorpusVars == <<storeVars, histVars, jsonVars, comboVars, pauVars>>

----------------------------------------------------------------------------
(* Bounds of the model *)

MaxInterval == 3    \* flush intervals tried: None, 1..MaxInterval
MaxRuns     == 3    \* batch runs started in one behaviour
MaxOps      == 3    \* write calls in one SpecStore behaviour
MaxFlushes  == 2    \* explicit flush calls on one store in SpecStore
MaxOpens    == 3    \* stores opened in one SpecStore behaviour
MaxTimes    == 4    \* retry budgets tried: None, 0..MaxTimes
MaxDocs     == 3    \* document ids written to the IndexedJsonCheckpoint: 1..MaxDocs
MaxJsonOps  == 5    \* operations in one SpecJson behaviour
MaxQuestions == 2   \* questions of a collated table: 1..MaxQuestions
MaxConfidence == 2  \* raw confidence values of a row: 1..MaxConfidence
MaxFrequency == 2   \* question frequencies: 0..MaxFrequency
MaxDocuments == 3   \* documents of the XMGR project: 1..MaxDocuments
MaxProcesses == 3   \* download commands started in one behaviour
MaxRetries  == 2    \* --retries of a download command: None, 1..MaxRetries
MaxCheckpointFrequency == 2 \* --checkpoint-frequency: 1..MaxCheckpointFrequency

----------------------------------------------------------------------------
(* Python values *)

None == -1          \* Python's None where an optional int is expected

PyStr(t) == [type |-> "str", text |-> t]
PyNum(t) == [type |-> "num", text |-> t]
NaN      == [type |-> "num", text |-> "nan"]

\* The float NaN read from row n of a float column: iterating the column
\* makes a new float object for every row, and set() keeps two NaN objects
\* apart, while the NaN of a str column is the one object numpy.nan.
FloatNaN(n) == [type |-> "num", text |-> "nan", row |-> n]

QUESTION == "Question"
ANSWER   == "Answer"
Header   == <<QUESTION, ANSWER>>

\* The work items of the model, in Python's sort order of str.
ItemOrder == <<PyStr("10"), PyStr("NA"), PyStr("a"), PyStr("b")>>
Items     == {ItemOrder[n] : n \in 1..Len(ItemOrder)}

\* sorted(S) for a set S of items
Sorted(S) == SelectSeq(ItemOrder, LAMBDA x : x \in S)

\* The external service: a deterministic perform_one / system.ask.
Ask(name) == PyStr("answer to " \o name.text)

----------------------------------------------------------------------------
(* The CSV file: DataFrame.to_csv and pandas.read_csv *)

\* Strings pandas.read_csv reads as NaN (its default na_values).
NaStrings == {"", "#N/A", "#N/A N/A", "#NA", "-1.#IND", "-1.#QNAN", "-NaN", "-nan",
              "1.#IND", "1.#QNAN", "N/A", "NA", "NULL", "NaN", "n/a", "nan", "null"}

\* Strings of the model that read_csv parses as a number.
NumericStrings == {"10"}

\* One buffered record as a line of text fields.
ToCsvRow(values) == [n \in 1..Len(values) |-> values[n].text]

\* buffer.to_csv(output_file, header=need_header, index=False): the lines added.
ToCsvLines(buf, hdr) ==
    (IF hdr THEN <<Header>> ELSE <<>>) \o [n \in 1..Len(buf) |-> ToCsvRow(buf[n])]

\* The text of column 0 of the data rows (line 1 is read as the header).
Column0(lines) == [n \in 1..(Len(lines) - 1) |-> lines[n + 1][1]]

\* pandas.read_csv(open(f), usecols=[0]) followed by set(recovered[column 0]).
\* An empty file has no columns to parse: a ValueError.  A column whose non-NaN
\* entries are all numeric is read as numbers, any other column as str.
ReadCsv(lines) ==
    IF lines = <<>> THEN [ok |-> FALSE, keys |-> {}]
    ELSE LET col     == Column0(lines)
             texts   == {col[n] : n \in 1..Len(col)}
             numeric == (texts \ NaStrings) \subseteq NumericStrings
             Parse(n) == IF col[n] \in NaStrings
                         THEN (IF numeric THEN FloatNaN(n) ELSE NaN)
                         ELSE IF numeric THEN PyNum(col[n]) ELSE PyStr(col[n])
         IN  [ok |-> TRUE, keys |-> {Parse(n) : n \in 1..Len(col)}]

\* The keys persisted in the file: the text of column 0 of its data rows.
PersistedKeys(lines) ==
    IF lines = <<>> THEN {} ELSE {Column0(lines)[n] : n \in 1..(Len(lines) - 1)}

----------------------------------------------------------------------------
(* DataFrameCheckpoint *)

Intervals == {None} \cup (1..MaxInterval)

\* DataFrameCheckpoint.__init__ when read_csv succeeds or the file is absent.
\* open(output_filename, "a") creates the file when it does not exist.
OpenStore(iv) ==
    /\ (fileExists => ReadCsv(file).ok)
    /\ recovered' = IF fileExists THEN ReadCsv(file).keys ELSE {}
    /\ need_header' = ~fileExists
    /\ openedExisting' = fileExists
    /\ flushes' = 0
    /\ fileExists' = TRUE
    /\ file' = file
    /\ output_file' = "open"
    /\ buffer' = <<>>
    /\ interval' = iv

\* A constructor that opens the file for writing before it reads it.
OpenStoreFails_Truncates ==
    /\ fileExists /\ ~ReadCsv(file).ok
    /\ file' = <<Header>>
    /\ UNCHANGED <<fileExists, output_file, recovered, need_header, buffer, interval,
                   openedExisting, flushes>>

\* DataFrameCheckpoint.__init__ when read_csv raises ValueError: the
\* constructor raises before the file is opened for append.
OpenStoreFails ==
    /\ fileExists /\ ~ReadCsv(file).ok
    /\ UNCHANGED <<storeVars, openedExisting, flushes>>

\* A flush that forgets that the header has been written.
flush_KeepHeader(buf) ==
    /\ file' = file \o ToCsvLines(buf, need_header)
    /\ buffer' = <<>>
    /\ need_header' = need_header
    /\ headerWrites' = headerWrites + (IF need_header THEN 1 ELSE 0)
    /\ flushes' = flushes + 1
    /\ lastOp' = [op |-> "flush", buffered |-> Len(buf),
                  header |-> need_header, lines |-> Len(file') - Len(file)]

\* DataFrameCheckpoint.flush of the records buf.
flush(buf) ==
    /\ file' = file \o ToCsvLines(buf, need_header)
    /\ buffer' = <<>>
    /\ need_header' = FALSE
    /\ headerWrites' = headerWrites + (IF need_header THEN 1 ELSE 0)
    /\ flushes' = flushes + 1
    /\ lastOp' = [op |-> "flush", buffered |-> Len(buf),
                  header |-> need_header, lines |-> Len(file') - Len(file)]

\* A write that only buffers and never flushes on the interval.
write_NoFlush(values) ==
    /\ buffer' = Append(buffer, values)
    /\ lastOp' = [op |-> "write", buffered |-> Len(buffer) + 1,
                  header |-> FALSE, lines |-> 0]
    /\ UNCHANGED <<file, need_header, headerWrites, flushes>>

\* DataFrameCheckpoint.write(*values)
write(values) ==
    LET b == Append(buffer, values)
    IN  IF interval # None /\ Len(b) % interval = 0
        THEN flush(b)
        ELSE /\ buffer' = b
             /\ lastOp' = [op |-> "write", buffered |-> Len(b),
                           header |-> FALSE, lines |-> 0]
             /\ UNCHANGED <<file, need_header, headerWrites, flushes>>

\* DataFrameCheckpoint.close()
close ==
    /\ flush(buffer)
    /\ output_file' = "closed"

----------------------------------------------------------------------------
(* The batch runner: get_items / answer_questions *)

\* A runner that forgets to leave out the recovered items.
NamesToGet_NoFilter(ns, rec) == Sorted(ns)

\* sorted(set(names) - recovered)
NamesToGet(ns, rec) == Sorted(ns \ rec)

NoOp(op) == [op |-> op, buffered |-> 0, header |-> FALSE, lines |-> 0]

Stopped == {"idle", "done", "raised", "killed", "open_failed"}

\* A run starts: the store is constructed and the work list computed.
Start(iv) ==
    /\ pc \in Stopped
    /\ runs < MaxRuns
    /\ OpenStore(iv)
    /\ names_to_get' = NamesToGet(names, recovered')
    /\ i' = 1
    /\ asked' = <<>>
    /\ completed' = {}
    /\ written' = <<>>
    /\ runs' = runs + 1
    /\ pc' = "loop"
    /\ lastOp' = NoOp("open")
    /\ UNCHANGED <<names, runner, item, headerWrites, offStoreVars>>

\* A run starts on a file read_csv cannot parse: the constructor raises.
StartFails ==
    /\ pc \in Stopped
    /\ runs < MaxRuns
    /\ OpenStoreFails
    /\ runs' = runs + 1
    /\ pc' = "open_failed"
    /\ lastOp' = NoOp("open_failed")
    /\ UNCHANGED <<names, runner, names_to_get, i, item, asked, completed, written,
                   headerWrites, offStoreVars>>

\* The runners: get_items of checkpoint.py and answer_questions of answer.py.
Runners == {"get_items", "answer_questions"}

\* The value of i in the runner's loop: enumerate(..., len(recovered) + 1).
LoopIndex == Cardinality(recovered) + i

\* The test that guards the log line at the head of the loop body,
\*   get_items:        i == start or i == total or i % write_frequency == 0
\*   answer_questions: i is 1 or i == n or i % checkpoint_frequency is 0
\* with start = 1 + len(recovered), total = len(names) and
\* n = len(recovered) + len(questions), raises TypeError when it comes to its
\* third operand with a frequency of None.  The callers give the loop the
\* interval they gave the store.
LogTestRaises ==
    /\ interval = None
    /\ IF runner = "get_items"
       THEN i # 1 /\ LoopIndex # Cardinality(names)
       ELSE LoopIndex # 1 /\ i # Len(names_to_get)

\* The test of the log line raises: the finally clause closes the store and
\* the TypeError leaves the runner; get_item is not called.
LogTestFails ==
    /\ pc = "loop"
    /\ i <= Len(names_to_get)
    /\ LogTestRaises
    /\ close
    /\ pc' = "raised"
    /\ UNCHANGED <<fileExists, recovered, interval, openedExisting, names, runner,
                   names_to_get, i, item, asked, completed, written, runs, offStoreVars>>

\* item = get_item(name) returns.
GetItem ==
    /\ pc = "loop"
    /\ i <= Len(names_to_get)
    /\ ~LogTestRaises
    /\ item' = Ask(names_to_get[i])
    /\ asked' = Append(asked, names_to_get[i])
    /\ completed' = completed \cup {names_to_get[i]}
    /\ pc' = "write"
    /\ UNCHANGED <<storeVars, histVars, names, runner, names_to_get, i, written, runs,
                   offStoreVars>>

\* A runner without the finally clause: the exception leaves with the
\* store still open and its buffer unflushed.
GetItemRaises_NoClose ==
    /\ pc = "loop"
    /\ i <= Len(names_to_get)
    /\ ~LogTestRaises
    /\ asked' = Append(asked, names_to_get[i])
    /\ pc' = "raised"
    /\ UNCHANGED <<storeVars, histVars, names, runner, names_to_get, i, item, completed,
                   written, runs, offStoreVars>>

\* get_item(name) raises: the finally clause closes the store and the
\* exception leaves the runner.
GetItemRaises ==
    /\ pc = "loop"
    /\ i <= Len(names_to_get)
    /\ ~LogTestRaises
    /\ asked' = Append(asked, names_to_get[i])
    /\ close
    /\ pc' = "raised"
    /\ UNCHANGED <<fileExists, recovered, interval, openedExisting, names, runner,
                   names_to_get, i, item, completed, written, runs, offStoreVars>>

\* checkpoint.write(name, item), then the loop moves to the next item.
Write ==
    /\ pc = "write"
    /\ write(<<names_to_get[i], item>>)
    /\ written' = Append(written, ToCsvRow(<<names_to_get[i], item>>))
    /\ i' = i + 1
    /\ pc' = "loop"
    /\ UNCHANGED <<fileExists, output_file, recovered, interval, openedExisting, names, runner,
                   names_to_get, item, asked, completed, runs, offStoreVars>>

\* The loop is over: the finally clause closes the store and the runner returns.
Finish ==
    /\ pc = "loop"
    /\ i > Len(names_to_get)
    /\ close
    /\ pc' = "done"
    /\ UNCHANGED <<fileExists, recovered, interval, openedExisting, names, runner,
                   names_to_get, i, item, asked, completed, written, runs, offStoreVars>>

\* The process is hard-killed between two steps: the buffer is lost.
Kill ==
    /\ pc \in {"loop", "write"}
    /\ pc' = "killed"
    /\ output_file' = "none"
    /\ buffer' = <<>>
    /\ lastOp' = NoOp("kill")
    /\ UNCHANGED <<fileExists, file, recovered, need_header, interval, headerWrites,
                   openedExisting, flushes, names, runner, names_to_get, i, item, asked,
                   completed, written, runs, offStoreVars>>

\* The records a flush starting in this state would write: the flush of
\* write() when the buffer reaches the interval, the flush of close() otherwise.
PendingFlush ==
    IF pc = "write"
    THEN LET b == Append(buffer, <<names_to_get[i], item>>)
         IN  IF interval # None /\ Len(b) % interval = 0 THEN b ELSE <<>>
    ELSE buffer

\* The process is hard-killed inside flush, between to_csv and
\* output_file.flush(): only the first n lines have reached the disk.
KillMidFlush(n) ==
    /\ pc \in {"loop", "write"}
    /\ n \in 1..(Len(ToCsvLines(PendingFlush, need_header)) - 1)
    /\ file' = file \o SubSeq(ToCsvLines(PendingFlush, need_header), 1, n)
    /\ headerWrites' = headerWrites + (IF need_header THEN 1 ELSE 0)
    /\ pc' = "killed"
    /\ output_file' = "none"
    /\ buffer' = <<>>
    /\ lastOp' = NoOp("kill")
    /\ UNCHANGED <<fileExists, recovered, need_header, interval, openedExisting, flushes,
                   names, runner, names_to_get, i, item, asked, completed, written, runs,
                   offStoreVars>>

RetryIdle ==
    /\ times = None /\ k0 = None /\ fails = <<>> /\ calls = 0 /\ sleeps = 0
    /\ rpc = "idle"

NoStore ==
    /\ fileExists = FALSE /\ file = <<>> /\ output_file = "none"
    /\ recovered = {} /\ need_header = FALSE /\ buffer = <<>> /\ interval = None
    /\ headerWrites = 0 /\ openedExisting = FALSE /\ flushes = 0
    /\ lastOp = NoOp("none")

NoJson ==
    /\ jExists = FALSE /\ jItems = <<>> /\ jTorn = FALSE /\ jbuffer = {}
    /\ jinterval = None /\ jops = 0
    /\ jlast = [op |-> "none", keys |-> {}, preExists |-> FALSE, preItems |-> <<>>]

NoCombo ==
    /\ systems_data = <<>> /\ combined = <<>>
    /\ cstat = [op |-> "none", raised |-> FALSE]

NoPau ==
    /\ nones = {} /\ invalid = 0

\* No file on disk, and a line list for it.
AbsentFile == [exists |-> FALSE, lines |-> <<>>]

\* No DataFrameCheckpoint object.
NoCheckpoint ==
    [output_file |-> "none", recovered |-> {}, need_header |-> FALSE, buffer |-> <<>>,
     interval |-> None]

NoCorpus ==
    /\ document_ids_csv = AbsentFile /\ corpus_csv = AbsentFile
    /\ downloaded_document_ids = NoCheckpoint /\ corpus = NoCheckpoint
    /\ document_ids = <<>> /\ checkpoint_frequency = 1 /\ max_docs = 0
    /\ fetched = <<>>

\* The state of the components a specification does not exercise.
NoOther == NoJson /\ NoCombo /\ NoPau /\ NoCorpus

NoRun ==
    /\ runner = "get_items"
    /\ names_to_get = <<>> /\ i = 1 /\ item = PyStr("") /\ asked = <<>>
    /\ completed = {} /\ written = <<>> /\ runs = 0

Init ==
    /\ NoStore /\ RetryIdle /\ NoOther
    /\ pc = "idle"
    /\ names \in SUBSET Items
    /\ runner \in Runners
    /\ names_to_get = <<>> /\ i = 1 /\ item = PyStr("") /\ asked = <<>>
    /\ completed = {} /\ written = <<>> /\ runs = 0

Next ==
    \/ \E iv \in Intervals : Start(iv)
    \/ StartFails
    \/ LogTestFails
    \/ GetItem
    \/ GetItemRaises
    \/ Write
    \/ Finish
    \/ Kill
    \/ \E n \in 1..(MaxInterval + 1) : KillMidFlush(n)

Spec == Init /\ [][Next]_vars

----------------------------------------------------------------------------
(* Claims about the batch runner, checked under Spec *)

DataRows(lines) == {lines[n] : n \in 2..Len(lines)}

\* The data rows of an uncrashed run to completion on a fresh file.
ExpectedRows == {ToCsvRow(<<x, Ask(x)>>) : x \in names}

\* Position of an item in the sort order.
Rank(x) == CHOOSE n \in 1..Len(ItemOrder) : ItemOrder[n] = x

\* Items whose get_item completed in the killed run and whose record is not
\* in the file.
Lost == {x \in completed : ToCsvRow(<<x, Ask(x)>>) \notin DataRows(file)}

\* C1: a batch killed after any number k >= 0 of flushed items can be
\* restarted and run to completion, and the file then holds exactly the
\* records of an uncrashed run.  (The code fails the restart when the kill
\* came before the first flush.)
C1_IdempotentResume ==
    /\ pc # "open_failed"
    /\ pc = "done" => DataRows(file) = ExpectedRows

\* C2: every recovery key appears in exactly one data row of the file.
C2_NoDuplicateKeys ==
    \A m, n \in 2..Len(file) : m # n => file[m][1] # file[n][1]

\* C6: within one run get_item is invoked only on input items that are not
\* in the recovered set, at most once per item, in ascending sorted order.
C6_AskedOnceInOrder ==
    /\ \A n \in 1..Len(asked) : asked[n] \in names /\ asked[n] \notin recovered
    /\ \A m, n \in 1..Len(asked) : m < n => Rank(asked[m]) < Rank(asked[n])

\* C6 witness: a completed run that skipped a recovered input item and
\* asked two others.
C6_Witness ==
    /\ pc = "done"
    /\ (recovered \cap names) # {}
    /\ Len(asked) >= 2

\* C7: when get_item raises, the store is closed before the exception
\* leaves the runner and every record written earlier in the run is in the
\* file.  (pc = "raised" is also where the TypeError of the log test leaves
\* the runner, through the same finally clause.)
C7_ClosedOnRaise ==
    pc = "raised" =>
        /\ output_file = "closed"
        /\ buffer = <<>>
        /\ Len(file) >= Len(written)
        /\ SubSeq(file, Len(file) - Len(written) + 1, Len(file)) = written

\* C7 witness: get_item raised on the third item of a run with interval 3,
\* after two records were written that no interval flush had persisted.
C7_Witness ==
    /\ pc = "raised"
    /\ interval = 3
    /\ Len(written) = 2
    /\ Len(asked) = 3
    /\ lastOp.op = "flush" /\ lastOp.buffered = 2

\* C8: after a hard kill at any point of a run, at most one item whose
\* get_item had completed is missing from the persisted file.  (The code
\* loses up to the flush interval of them, and all of them with interval
\* None.)
C8_AtMostOneLost ==
    pc = "killed" => Cardinality(Lost) <= 1

----------------------------------------------------------------------------
(* The store driven freely by a client: open, write, flush, close, reopen *)

\* DataFrameCheckpoint(output_filename, columns, interval)
StoreOpen(iv) ==
    /\ output_file # "open"
    /\ runs < MaxOpens
    /\ OpenStore(iv)
    /\ runs' = runs + 1
    /\ lastOp' = NoOp("open")
    /\ UNCHANGED <<headerWrites, pc, names, runner, names_to_get, i, item, asked, completed,
                   written, offStoreVars>>

\* DataFrameCheckpoint(...) raises "Cannot recover data".
StoreOpenFails ==
    /\ output_file # "open"
    /\ runs < MaxOpens
    /\ OpenStoreFails
    /\ runs' = runs + 1
    /\ lastOp' = NoOp("open_failed")
    /\ UNCHANGED <<headerWrites, pc, names, runner, names_to_get, i, item, asked, completed,
                   written, offStoreVars>>

\* checkpoint.write(name, value)
StoreWrite(name) ==
    /\ output_file = "open"
    /\ Len(written) < MaxOps
    /\ write(<<name, Ask(name)>>)
    /\ written' = Append(written, ToCsvRow(<<name, Ask(name)>>))
    /\ UNCHANGED <<fileExists, output_file, recovered, interval, openedExisting, pc,
                   names, runner, names_to_get, i, item, asked, completed, runs, offStoreVars>>

\* checkpoint.flush()
StoreFlush ==
    /\ output_file = "open"
    /\ flushes < MaxFlushes
    /\ flush(buffer)
    /\ UNCHANGED <<fileExists, output_file, recovered, interval, openedExisting,
                   runVars, offStoreVars>>

\* checkpoint.close()
StoreClose ==
    /\ output_file = "open"
    /\ close
    /\ UNCHANGED <<fileExists, recovered, interval, openedExisting, runVars, offStoreVars>>

\* The client ends without closing the store: the buffer is lost.
StoreAbandon ==
    /\ output_file = "open"
    /\ output_file' = "none"
    /\ buffer' = <<>>
    /\ lastOp' = NoOp("kill")
    /\ UNCHANGED <<fileExists, file, recovered, need_header, interval, headerWrites,
                   openedExisting, flushes, runVars, offStoreVars>>

\* checkpoint.close() on a store that is already closed: flush runs again and
\* output_file.flush() raises ValueError (I/O operation on closed file) before
\* the buffer is reset; nothing reaches the file.
StoreCloseClosed ==
    /\ output_file = "closed"
    /\ lastOp' = NoOp("close_raised")
    /\ UNCHANGED <<storeVars, headerWrites, openedExisting, flushes, runVars, offStoreVars>>

InitStore ==
    /\ NoStore /\ NoRun /\ RetryIdle /\ NoOther
    /\ pc = "store"
    /\ names = Items

NextStore ==
    \/ \E iv \in Intervals : StoreOpen(iv)
    \/ StoreOpenFails
    \/ \E name \in Items : StoreWrite(name)
    \/ StoreFlush
    \/ StoreClose
    \/ StoreCloseClosed
    \/ StoreAbandon

SpecStore == InitStore /\ [][NextStore]_vars

----------------------------------------------------------------------------
(* Claims about the store, checked under SpecStore *)

\* C3: opening a store on a file left by earlier write, flush and close
\* calls gives, before any new write, a recovered set equal to the set of
\* keys persisted in the file.
C3_RecoveredIsPersisted ==
    lastOp.op = "open" => recovered = {PyStr(t) : t \in PersistedKeys(file)}

\* C9: the buffer never holds two records with the same key.
C9_NoDuplicateInBuffer ==
    \A m, n \in 1..Len(buffer) : m # n => buffer[m][1] # buffer[n][1]

\* C10: the header row is written at most once, only by the first flush of a
\* store opened on a non-existing file; every flush leaves the buffer empty;
\* a flush with an empty buffer adds no data row.
C10_HeaderOnceFlushEmpties ==
    /\ headerWrites <= 1
    /\ lastOp.op = "flush" =>
          /\ buffer = <<>>
          /\ lastOp.header => (~openedExisting /\ flushes = 1)
          /\ lastOp.buffered = 0 => lastOp.lines = (IF lastOp.header THEN 1 ELSE 0)

\* C10 witness: a store reopened on the existing file flushes an empty
\* buffer after the header was written by an earlier store.
C10_Witness ==
    /\ lastOp.op = "flush"
    /\ lastOp.buffered = 0
    /\ openedExisting
    /\ headerWrites = 1
    /\ Len(file) >= 2

----------------------------------------------------------------------------
(* retry(function, times) *)

\* retry with times None that swallows the exception of function.
RetryNone_Swallow ==
    /\ rpc = "call"
    /\ times = None
    /\ calls' = calls + 1
    /\ rpc' = "returned"
    /\ UNCHANGED <<times, k0, fails, sleeps, offRetryVars>>

\* times is None: function() is called once, outside any try.
RetryNone ==
    /\ rpc = "call"
    /\ times = None
    /\ calls' = calls + 1
    /\ rpc' = IF fails[calls + 1] THEN "raised" ELSE "returned"
    /\ UNCHANGED <<times, k0, fails, sleeps, offRetryVars>>

\* assert times > 0 fails: AssertionError leaves retry.
RetryAssert ==
    /\ rpc = "call"
    /\ times # None
    /\ ~(times > 0)
    /\ rpc' = "assert"
    /\ UNCHANGED <<times, k0, fails, calls, sleeps, offRetryVars>>

\* retry that re-raises the last exception when the attempts are exhausted.
RetryTry_Reraise ==
    /\ rpc = "call"
    /\ times # None
    /\ times > 0
    /\ calls' = calls + 1
    /\ IF ~fails[calls + 1]
       THEN /\ rpc' = "returned"
            /\ UNCHANGED <<times, sleeps>>
       ELSE /\ times' = times - 1
            /\ IF times' # 0
               THEN /\ sleeps' = sleeps + 1
                    /\ rpc' = "call"
               ELSE /\ rpc' = "raised"
                    /\ UNCHANGED sleeps
    /\ UNCHANGED <<k0, fails, offRetryVars>>

\* One frame of retry with times > 0: function() is called in the try; on an
\* exception times is decremented, and retry sleeps and recurses while
\* attempts remain, and returns otherwise.
RetryTry ==
    /\ rpc = "call"
    /\ times # None
    /\ times > 0
    /\ calls' = calls + 1
    /\ IF ~fails[calls + 1]
       THEN /\ rpc' = "returned"
            /\ UNCHANGED <<times, sleeps>>
       ELSE /\ times' = times - 1
            /\ IF times' # 0
               THEN /\ sleeps' = sleeps + 1
                    /\ rpc' = "call"
               ELSE /\ rpc' = "returned"
                    /\ UNCHANGED sleeps
    /\ UNCHANGED <<k0, fails, offRetryVars>>

InitRetry ==
    /\ NoStore /\ NoRun /\ NoOther
    /\ pc = "retry"
    /\ names = {}
    /\ k0 \in {None} \cup (0..MaxTimes)
    /\ times = k0
    /\ fails \in [1..MaxTimes -> BOOLEAN]
    /\ calls = 0
    /\ sleeps = 0
    /\ rpc = "call"

NextRetry ==
    \/ RetryNone
    \/ RetryAssert
    \/ RetryTry

SpecRetry == InitRetry /\ [][NextRetry]_vars

----------------------------------------------------------------------------
(* Claims about retry, checked under SpecRetry *)

\* Position of the first call of function that does not raise among the
\* first k calls, or k when they all raise.
FirstOk(k) ==
    IF \E j \in 1..k : ~fails[j]
    THEN CHOOSE j \in 1..k : ~fails[j] /\ \A h \in 1..(j - 1) : fails[h]
    ELSE k

\* C4: retry(f, k) with k > 0 invokes f exactly min(k, j) times, j the
\* position of the first call that does not raise, and then returns
\* normally; it never raises.
C4_RetryBudget ==
    (k0 # None /\ k0 > 0) =>
        /\ rpc \in {"call", "returned"}
        /\ rpc = "call" => calls < FirstOk(k0)
        /\ rpc = "returned" => calls = FirstOk(k0)

\* C4 witness: retry(f, 3) with f always raising has returned after 3 calls.
C4_Witness ==
    /\ k0 = 3
    /\ \A j \in 1..3 : fails[j]
    /\ rpc = "returned"
    /\ calls = 3

\* C5: retry(f, None) invokes f exactly once, never sleeps, and lets an
\* exception of f propagate.
C5_NoneCallsOnce ==
    k0 = None =>
        /\ sleeps = 0
        /\ rpc = "call" => calls = 0
        /\ rpc # "call" => /\ calls = 1
                           /\ rpc = (IF fails[1] THEN "raised" ELSE "returned")

\* C5 witness: retry(f, None) ended with the exception of f after one call.
C5_Witness ==
    /\ k0 = None
    /\ rpc = "raised"
    /\ calls = 1

\* C11: close() on a store that is already closed (or whose earlier close
\* failed) raises no error and leaves the file unchanged.  (The code raises
\* ValueError from the second close.)
C11_CloseIdempotent ==
    lastOp.op # "close_raised"

\* C12: opening a store on a file that exists but cannot be parsed raises at
\* once and leaves the file as it was: every open of an unparseable file
\* fails, and a failed open changes neither the file nor the handle.
C12_CorruptOpenRaises ==
    [][ (runs' # runs) =>
          /\ (fileExists /\ ~ReadCsv(file).ok) => lastOp'.op = "open_failed"
          /\ lastOp'.op = "open_failed" =>
                /\ file' = file
                /\ fileExists' = fileExists
                /\ output_file' = output_file
                /\ output_file' # "open" ]_vars

\* C12 witness: an open has failed on the existing, empty (unparseable) file.
C12_Witness ==
    /\ lastOp.op = "open_failed"
    /\ fileExists
    /\ ~ReadCsv(file).ok

----------------------------------------------------------------------------
(* IndexedJsonCheckpoint (src/get_paus.py) *)

DocIds == 1..MaxDocs

Range(q) == {q[n] : n \in 1..Len(q)}

\* The orders in which dict.values() may list the buffered items.
Orders(S) ==
    {q \in [1..Cardinality(S) -> S] : \A a, b \in 1..Cardinality(S) : a # b => q[a] # q[b]}

\* IndexedJsonCheckpoint.load(): [] when the file does not exist; json.load
\* raises ValueError on an incomplete document.
JLoad ==
    IF ~jExists THEN [ok |-> TRUE, items |-> <<>>]
    ELSE IF jTorn THEN [ok |-> FALSE, items |-> <<>>]
    ELSE [ok |-> TRUE, items |-> jItems]

JLast(op, keys) ==
    [op |-> op, keys |-> keys, preExists |-> jExists, preItems |-> jItems]

\* A flush that does not compare the buffer with the items on disk.
jflush_NoDupCheck(buf) ==
    /\ jops' = jops + 1
    /\ UNCHANGED jinterval
    /\ IF buf = {}
       THEN /\ jbuffer' = {}
            /\ jlast' = JLast("flush", buf)
            /\ UNCHANGED <<jExists, jItems, jTorn>>
       ELSE IF ~JLoad.ok
       THEN /\ jbuffer' = buf
            /\ jlast' = JLast("load_raised", buf)
            /\ UNCHANGED <<jExists, jItems, jTorn>>
       ELSE /\ \E q \in Orders(buf) : jItems' = JLoad.items \o q
            /\ jExists' = TRUE
            /\ jTorn' = FALSE
            /\ jbuffer' = {}
            /\ jlast' = JLast("flush", buf)

\* IndexedJsonCheckpoint.flush() of the buffered keys buf: nothing to do for an
\* empty buffer; otherwise load the file, raise on a key that is already
\* there, remove the file and write the old and the new items.
jflush(buf) ==
    /\ jops' = jops + 1
    /\ UNCHANGED jinterval
    /\ IF buf = {}
       THEN /\ jbuffer' = {}
            /\ jlast' = JLast("flush", buf)
            /\ UNCHANGED <<jExists, jItems, jTorn>>
       ELSE IF ~JLoad.ok
       THEN /\ jbuffer' = buf
            /\ jlast' = JLast("load_raised", buf)
            /\ UNCHANGED <<jExists, jItems, jTorn>>
       ELSE IF buf \cap Range(JLoad.items) # {}
       THEN /\ jbuffer' = buf
            /\ jlast' = JLast("dup_raised", buf)
            /\ UNCHANGED <<jExists, jItems, jTorn>>
       ELSE /\ \E q \in Orders(buf) : jItems' = JLoad.items \o q
            /\ jExists' = TRUE
            /\ jTorn' = FALSE
            /\ jbuffer' = {}
            /\ jlast' = JLast("flush", buf)

\* IndexedJsonCheckpoint.write(item), item[index] = k
JsonWrite(k) ==
    /\ jops < MaxJsonOps
    /\ IF k \in jbuffer
       THEN /\ jlast' = JLast("write_raised", jbuffer)
            /\ jops' = jops + 1
            /\ UNCHANGED <<jExists, jItems, jTorn, jbuffer, jinterval>>
       ELSE IF jinterval # None /\ Cardinality(jbuffer \cup {k}) % jinterval = 0
       THEN jflush(jbuffer \cup {k})
       ELSE /\ jbuffer' = jbuffer \cup {k}
            /\ jlast' = JLast("write", jbuffer')
            /\ jops' = jops + 1
            /\ UNCHANGED <<jExists, jItems, jTorn, jinterval>>
    /\ UNCHANGED offJsonVars

\* checkpoint.flush()
JsonFlush ==
    /\ jops < MaxJsonOps
    /\ jflush(jbuffer)
    /\ UNCHANGED offJsonVars

\* The buffers a flush that rewrites the file may be flushing in this state:
\* the buffer itself, for a call of flush(), and the buffer with one more key,
\* for the flush of a write(item) that fills the interval.
Flushing ==
    {jbuffer} \cup
    {jbuffer \cup {k} : k \in {d \in DocIds \ jbuffer :
                                 /\ jinterval # None
                                 /\ Cardinality(jbuffer \cup {d}) % jinterval = 0}}

\* The process is hard-killed inside a flush of the keys buf: before
\* os.remove ("pre": on entry, inside load() or at the duplicate check,
\* whatever the file holds), between os.remove and open(filename, "w")
\* ("missing"), inside json.dump ("torn"), or after the file is written
\* ("post"); the last three only in a flush that gets as far as rewriting
\* the file.  A new process starts with an empty buffer.
JsonKillMidFlush(outcome, buf) ==
    /\ jops < MaxJsonOps
    /\ buf \in Flushing
    /\ outcome # "pre" =>
          /\ buf # {}
          /\ JLoad.ok
          /\ buf \cap Range(JLoad.items) = {}
    /\ CASE outcome = "pre"     -> UNCHANGED <<jExists, jItems, jTorn>>
         [] outcome = "missing" -> jExists' = FALSE /\ jItems' = <<>> /\ jTorn' = FALSE
         [] outcome = "torn"    -> jExists' = TRUE /\ jItems' = <<>> /\ jTorn' = TRUE
         [] outcome = "post"    -> /\ \E q \in Orders(buf) : jItems' = JLoad.items \o q
                                   /\ jExists' = TRUE
                                   /\ jTorn' = FALSE
    /\ jbuffer' = {}
    /\ jlast' = JLast("kill", buf)
    /\ jops' = jops + 1
    /\ UNCHANGED <<jinterval, offJsonVars>>

\* IndexedJsonCheckpoint(filename, interval, index) is constructed again on
\* the same file, after the process that held the earlier one has ended.
JsonInit(iv) ==
    /\ jops < MaxJsonOps
    /\ jbuffer' = {}
    /\ jinterval' = iv
    /\ jlast' = JLast("init", jbuffer)
    /\ jops' = jops + 1
    /\ UNCHANGED <<jExists, jItems, jTorn, offJsonVars>>

\* get_paus_from_xmgr after its last checkpoint.flush(): the documents are
\* loaded into a frame, which needs a file with items, and the checkpoint
\* file is removed.
JsonRemove ==
    /\ jops < MaxJsonOps
    /\ jbuffer = {}
    /\ jExists /\ JLoad.ok /\ JLoad.items # <<>>
    /\ jExists' = FALSE
    /\ jItems' = <<>>
    /\ jTorn' = FALSE
    /\ jlast' = JLast("remove", {})
    /\ jops' = jops + 1
    /\ UNCHANGED <<jbuffer, jinterval, offJsonVars>>

InitJson ==
    /\ NoStore /\ NoRun /\ RetryIdle /\ NoCombo /\ NoPau /\ NoCorpus
    /\ pc = "json"
    /\ names = {}
    /\ jExists = FALSE /\ jItems = <<>> /\ jTorn = FALSE /\ jbuffer = {}
    /\ jinterval \in {None} \cup (1..MaxInterval)
    /\ jops = 0
    /\ jlast = [op |-> "none", keys |-> {}, preExists |-> FALSE, preItems |-> <<>>]

NextJson ==
    \/ \E k \in DocIds : JsonWrite(k)
    \/ JsonFlush
    \/ \E iv \in {None} \cup (1..MaxInterval) : JsonInit(iv)
    \/ JsonRemove
    \/ \E outcome \in {"pre", "missing", "torn", "post"}, buf \in SUBSET DocIds :
          JsonKillMidFlush(outcome, buf)

SpecJson == InitJson /\ [][NextJson]_vars

----------------------------------------------------------------------------
(* Claims about IndexedJsonCheckpoint, checked under SpecJson *)

\* C13: when the process is killed inside a flush, the file holds either the
\* complete item list from before the flush or the complete list after it,
\* never a missing or partial file.
C13_AtomicRewrite ==
    jlast.op = "kill" =>
        /\ ~jTorn
        /\ \/ jExists = jlast.preExists /\ jItems = jlast.preItems
           \/ /\ jExists
              /\ Len(jItems) = Len(jlast.preItems) + Cardinality(jlast.keys)
              /\ SubSeq(jItems, 1, Len(jlast.preItems)) = jlast.preItems
              /\ Range(jItems) = Range(jlast.preItems) \cup jlast.keys

\* C14: a flush whose buffer holds a key that is already in the file raises
\* the duplication error and leaves the file unchanged.
C14_DuplicateRaises ==
    [][ (jops' # jops /\ jlast'.op \in {"flush", "dup_raised"}) =>
          /\ (jlast'.keys \cap Range(jItems) # {}) => jlast'.op = "dup_raised"
          /\ jlast'.op = "dup_raised" =>
                /\ jExists' = jExists /\ jItems' = jItems /\ jTorn' = jTorn
                /\ jlast'.keys \cap Range(jItems) # {} ]_vars

\* C14 witness: a flush has raised the duplication error on a file that
\* holds items.
C14_Witness ==
    /\ jlast.op = "dup_raised"
    /\ jExists
    /\ jlast.keys \cap Range(jItems) # {}

----------------------------------------------------------------------------
(* Collated tables: the input of the combiners of analyze.py *)

\* The float n/d, kept in lowest terms so that equal floats are equal values.
RECURSIVE Gcd(_, _)
Gcd(a, b) == IF b = 0 THEN a ELSE Gcd(b, a % b)

Frac(n, d) == [n |-> n \div Gcd(n, d), d |-> d \div Gcd(n, d)]
FracLess(x, y) == x.n * y.d < y.n * x.d
FracGeq(x, y)  == ~FracLess(x, y)
Zero == Frac(0, 1)

\* What precision returns for a zero denominator (None, NaN once in a Series).
NoPrecision == [n |-> 0, d |-> 0]

\* The float nan: a numpy 0 divided by 0.0.
NotANumber == [n |-> -1, d |-> 0]

SystemNames == <<"A", "B">>
Questions   == 1..MaxQuestions
Confidences == {Frac(c, MaxConfidence) : c \in 1..MaxConfidence}
Frequencies == 0..MaxFrequency

\* The systems' rows for one (system, question): none, a row whose In Purview
\* and Correct are missing (an answer not judged yet), or a judged row.
AbsentCell == [c |-> Zero, p |-> FALSE, k |-> FALSE, m |-> TRUE]
Cells ==
    {AbsentCell}
      \cup [c : Confidences, p : {FALSE}, k : {FALSE}, m : {TRUE}]
      \cup [c : Confidences, p : BOOLEAN, k : BOOLEAN, m : {FALSE}]

\* One row of a collated file. Answer stands for the answer text the system
\* gave to the question; Missing says that In Purview and Correct are NaN.
CollatedRow(s, q, cell, f) ==
    [System |-> s, Question |-> q, Answer |-> <<s, q>>,
     Confidence |-> cell.c, InPurview |-> cell.p, Correct |-> cell.k,
     Frequency |-> f, Missing |-> cell.m]

\* Row orders of a file: sorted by question then system, as output_format
\* writes it, or one system's rows after the other's.
Layouts == {"question", "system"}
KeyAt(layout, n) ==
    LET ns == Len(SystemNames)
    IN  IF layout = "question"
        THEN <<SystemNames[((n - 1) % ns) + 1], ((n - 1) \div ns) + 1>>
        ELSE <<SystemNames[((n - 1) \div MaxQuestions) + 1],
               ((n - 1) % MaxQuestions) + 1>>

Table(cells, freq, layout) ==
    LET all == [n \in 1..(Len(SystemNames) * MaxQuestions) |->
                   LET key == KeyAt(layout, n)
                   IN  CollatedRow(key[1], key[2], cells[key], freq[key[2]])]
    IN  SelectSeq(all, LAMBDA r : r.Confidence # Zero)

Tables ==
    {Table(cells, freq, layout) :
        cells \in [{<<SystemNames[j], q>> : j \in 1..Len(SystemNames), q \in Questions} -> Cells],
        freq \in [Questions -> Frequencies],
        layout \in Layouts}

RECURSIVE SumFrequency(_)
SumFrequency(rows) ==
    IF rows = <<>> THEN 0 ELSE Head(rows).Frequency + SumFrequency(Tail(rows))

QuestionsOf(rows) == {rows[n].Question : n \in 1..Len(rows)}
RowOf(rows, q) == rows[CHOOSE n \in 1..Len(rows) : rows[n].Question = q]

drop_missing_KeepAll(data) == data

drop_missing(data) == SelectSeq(data, LAMBDA r : ~r.Missing)
SystemRows(data, name) == SelectSeq(data, LAMBDA r : r.System = name)

\* What iterating a Series of numbers yields: numpy scalars (pandas before
\* 0.21) or Python numbers. A numpy scalar divided by 0.0 is inf, or nan
\* when it is 0 itself, with a warning; a Python number divided by 0.0
\* raises ZeroDivisionError.
Scalars == {"numpy", "python"}
AnyScalars == "python"      \* for the calls that divide nothing
Infinity == [n |-> 1, d |-> 0]

\* numerator / float(denominator) inside try ... except ZeroDivisionError:
\* return None, for the sums of the Frequency column over the rows numerator_rows
\* and denominator_rows. sum() of no rows is the Python int 0, sum() of
\* some rows is a scalar of the Series; float() always gives a Python float.
Divide(numerator_rows, denominator_rows, scalars) ==
    LET numerator == SumFrequency(numerator_rows)
        denominator == SumFrequency(denominator_rows)
    IN  IF denominator # 0 THEN Frac(numerator, denominator)
        ELSE IF numerator_rows # <<>> /\ scalars = "numpy"
             THEN (IF numerator # 0 THEN Infinity ELSE NotANumber)
        ELSE NoPrecision

precision_Strict(judgments, t, scalars) ==
    LET s == SelectSeq(judgments, LAMBDA r : FracLess(t, r.Confidence))
    IN  Divide(SelectSeq(s, LAMBDA r : r.Correct), SelectSeq(s, LAMBDA r : r.InPurview),
               scalars)

\* metrics.precision
precision(judgments, t, scalars) ==
    LET s == SelectSeq(judgments, LAMBDA r : FracGeq(r.Confidence, t))
    IN  Divide(SelectSeq(s, LAMBDA r : r.Correct), SelectSeq(s, LAMBDA r : r.InPurview),
               scalars)

standardize_confidence_RankFirst(system, r, method, scalars) ==
    LET n == CHOOSE n \in 1..Len(system) : system[n] = r
        less  == Len(SelectSeq(system, LAMBDA x : FracLess(x.Confidence, r.Confidence)))
        before == Len(SelectSeq(SubSeq(system, 1, n), LAMBDA x : x.Confidence = r.Confidence))
    IN  Frac(less + before, Len(system))

\* metrics.__standardize_confidence, for the row r of the table system.
\* 'rank' is Series.rank(pct=True): the average rank of the row's confidence
\* among the table's confidences, divided by the number of rows. 'precision'
\* is the precision of the system at the threshold closest to the row's
\* confidence, which is that confidence itself.
standardize_confidence(system, r, method, scalars) ==
    LET less  == Len(SelectSeq(system, LAMBDA x : FracLess(x.Confidence, r.Confidence)))
        equal == Len(SelectSeq(system, LAMBDA x : x.Confidence = r.Confidence))
    IN  IF method = "rank"
        THEN Frac(2 * less + equal + 1, 2 * Len(system))
        ELSE precision(system, r.Confidence, scalars)

----------------------------------------------------------------------------
(* analyze.oracle_combination and analyze.voting_router *)

\* The systems of interest, one table per name, in the order of the names.
SystemsOf(data, system_names) ==
    [j \in 1..Len(system_names) |-> SystemRows(data, system_names[j])]

\* reduce(Index.intersection): the questions of the first system, in its row
\* order, that every system has.
IndexIntersection(systems) ==
    LET first == [n \in 1..Len(systems[1]) |-> systems[1][n].Question]
    IN  SelectSeq(first, LAMBDA q : \A j \in DOMAIN systems : q \in QuestionsOf(systems[j]))

\* DataFrame.idxmax(axis=1) and idxmin(axis=1) over the columns js of one row
\* of values v: the first column that holds the greatest (least) value.
idxmax(v, js) ==
    CHOOSE j \in js :
        /\ \A k \in js : FracGeq(v[j], v[k])
        /\ \A k \in js : k < j => FracLess(v[k], v[j])
idxmin(v, js) ==
    CHOOSE j \in js :
        /\ \A k \in js : FracGeq(v[k], v[j])
        /\ \A k \in js : k < j => FracLess(v[j], v[k])

\* pandas.merge(systems_data, rows, left_on=[QUESTION, SYSTEM],
\* right_on=[QUESTION, ANSWERING_SYSTEM]): the rows of systems_data that some
\* combined row names, in the order of systems_data.
MergeAnswering(data, rows) ==
    SelectSeq(data, LAMBDA d : \E n \in 1..Len(rows) :
        rows[n].Question = d.Question /\ rows[n].AnsweringSystem = d.System)

\* What a combiner returns: it raised, or its rows.
Raised == [raised |-> TRUE, rows |-> <<>>]
Returned(rows) == [raised |-> FALSE, rows |-> rows]

\* reduce(m & x) over the systems' In Purview columns, for the question q.
systems_in_purview(systems, q) ==
    \A j \in DOMAIN systems : RowOf(systems[j], q).InPurview

systems_correct_Every(systems, q) ==
    \A j \in DOMAIN systems : RowOf(systems[j], q).Correct

systems_correct_First(systems, q) == RowOf(systems[1], q).Correct

\* reduce(m | x) over the systems' Correct columns, for the question q.
systems_correct(systems, q) ==
    \E j \in DOMAIN systems : RowOf(systems[j], q).Correct

oracle_combination(data0, system_names, oracle_name) ==
    LET data == drop_missing(data0)
        systems == SystemsOf(data, system_names)
        questions == IndexIntersection(systems)
        js == 1..Len(system_names)
        Percentile(j, q) ==
            standardize_confidence(systems[j], RowOf(systems[j], q), "rank", AnyScalars)
        oracle == [n \in 1..Len(questions) |->
            LET q == questions[n]
                correct == systems_correct(systems, q)
                v == [j \in js |-> Percentile(j, q)]
                a == IF correct THEN idxmax(v, js) ELSE idxmin(v, js)
            IN  [System |-> oracle_name, Question |-> q,
                 InPurview |-> systems_in_purview(systems, q),
                 Correct |-> correct,
                 Confidence |-> v[a],
                 AnsweringSystem |-> system_names[a],
                 Frequency |-> RowOf(systems[1], q).Frequency]]
        merged == MergeAnswering(data, oracle)
    IN  IF questions = <<>>
        THEN Raised     \* log_correct divides by the number of rows
        ELSE Returned([n \in 1..Len(oracle) |->
                 [System |-> oracle[n].System, Question |-> oracle[n].Question,
                  Answer |-> merged[n].Answer,
                  AnsweringSystem |-> oracle[n].AnsweringSystem,
                  Confidence |-> oracle[n].Confidence,
                  InPurview |-> oracle[n].InPurview, Correct |-> oracle[n].Correct,
                  Frequency |-> oracle[n].Frequency]])

voting_router(data0, system_names, voting_name, scalars) ==
    LET data == drop_missing(data0)
        systems == SystemsOf(data, system_names)
        questions == IndexIntersection(systems)
        js == 1..Len(system_names)
        pgc(j, q) ==
            standardize_confidence(systems[j], RowOf(systems[j], q), "precision", scalars)
        \* A pgc column in which every value is None keeps the dtype object (a
        \* None next to a float becomes NaN in a float column), and idxmax
        \* raises TypeError on a frame with an object column.
        ObjectColumn(j) ==
            \A m \in 1..Len(systems[j]) :
                standardize_confidence(systems[j], systems[j][m], "precision", scalars)
                    = NoPrecision
        \* idxmax skips the systems whose pgc is NaN or infinite (nanargmax
        \* masks every value that is not finite); max skips only the NaN
        Defined(q) == {j \in js : pgc(j, q) \notin {NoPrecision, NotANumber, Infinity}}
        voting == [n \in 1..Len(questions) |->
            LET q == questions[n]
                v == [j \in js |-> pgc(j, q)]
                a == idxmax(v, Defined(q))
            IN  [System |-> voting_name, Question |-> q,
                 InPurview |-> RowOf(systems[1], q).InPurview,
                 Confidence |-> IF \E j \in js : v[j] = Infinity THEN Infinity ELSE v[a],
                 AnsweringSystem |-> system_names[a],
                 Frequency |-> RowOf(systems[1], q).Frequency]]
        merged == MergeAnswering(data, voting)
    IN  IF \/ questions = <<>>     \* log_correct divides by the number of rows
           \/ \E j \in js : ObjectColumn(j)
           \/ \E n \in 1..Len(questions) : Defined(questions[n]) = {}
                                   \* no winner: log_correct formats a NaN sum with %d
        THEN Raised
        ELSE Returned([n \in 1..Len(voting) |->
                 [System |-> voting[n].System, Question |-> voting[n].Question,
                  Answer |-> merged[n].Answer,
                  AnsweringSystem |-> voting[n].AnsweringSystem,
                  Confidence |-> voting[n].Confidence,
                  InPurview |-> voting[n].InPurview, Correct |-> merged[n].Correct,
                  Frequency |-> voting[n].Frequency]])

----------------------------------------------------------------------------
(* analyze.fallback_combination *)

\* The first four characters of str(t), read as hundredths: "0.66" is 66.
Str4(t) == (100 * t.n) \div t.d

\* A row of a fallback system: the row r of a collated table with the
\* Percentile column and a new confidence.
FallbackRow(r, percentile, confidence) ==
    [System |-> r.System, Question |-> r.Question, Answer |-> r.Answer,
     Confidence |-> confidence, InPurview |-> r.InPurview, Correct |-> r.Correct,
     Frequency |-> r.Frequency, Missing |-> r.Missing, Percentile |-> percentile]

create_combined_fallback_system_at_threshold(default, secondary, threshold) ==
    LET combined_from_default ==
            SelectSeq(default, LAMBDA r : FracGeq(r.Confidence, threshold))
        combined_from_secondary ==
            SelectSeq(secondary, LAMBDA r : r.Question \notin QuestionsOf(combined_from_default))
        Std(system, rows) ==
            [n \in 1..Len(rows) |->
                LET pct == standardize_confidence(system, rows[n], "rank", AnyScalars)
                IN  FallbackRow(rows[n], pct, pct)]
    IN  Std(default, combined_from_default) \o Std(secondary, combined_from_secondary)

\* Series.unique(): the distinct values in the order of their first rows.
RECURSIVE unique(_)
unique(values) ==
    IF values = <<>> THEN <<>>
    ELSE LET rest == unique(SubSeq(values, 1, Len(values) - 1))
             last == values[Len(values)]
         IN  IF \E n \in 1..Len(rest) : rest[n] = last THEN rest ELSE Append(rest, last)

Intersecting_NoFilter(data, default_system, secondary_system) ==
    [default |-> SystemRows(data, default_system),
     secondary |-> SystemRows(data, secondary_system)]

\* The rows of the two systems for the questions both answered.
Intersecting(data, default_system, secondary_system) ==
    LET d == SystemRows(data, default_system)
        s == SystemRows(data, secondary_system)
        intersecting_questions == QuestionsOf(d) \cap QuestionsOf(s)
    IN  [default |-> SelectSeq(d, LAMBDA r : r.Question \in intersecting_questions),
         secondary |-> SelectSeq(s, LAMBDA r : r.Question \in intersecting_questions)]

\* The loop over unique_confidences: <<best_threshold, best_precision>>.
\* A precision of None is not greater than any number (Python 2), nor is nan.
RECURSIVE Search(_, _, _, _, _)
Search(thresholds, in, best_threshold, best_precision, scalars) ==
    IF thresholds = <<>> THEN <<best_threshold, best_precision>>
    ELSE LET threshold == Head(thresholds)
             system_precision ==
                 precision(create_combined_fallback_system_at_threshold(
                               in.default, in.secondary, threshold), Zero, scalars)
         IN  IF /\ system_precision \notin {NoPrecision, NotANumber}
                /\ FracLess(best_precision, system_precision)
             THEN Search(Tail(thresholds), in, threshold, system_precision, scalars)
             ELSE Search(Tail(thresholds), in, best_threshold, best_precision, scalars)

unique_confidences(in) == unique([n \in 1..Len(in.default) |-> in.default[n].Confidence])

best_threshold(in, scalars) == Search(unique_confidences(in), in, Zero, Zero, scalars)[1]

\* precision(x, 0) * 100, as the log lines compute it, raises: a NaN in the
\* Correct column cannot index the rows, and None cannot be multiplied.
AccuracyRaises(rows, scalars) ==
    \/ \E n \in 1..Len(rows) : rows[n].Missing
    \/ precision(rows, Zero, scalars) = NoPrecision

fallback_combination(data, default_system, secondary_system, scalars) ==
    LET in == Intersecting(data, default_system, secondary_system)
        t == best_threshold(in, scalars)
        best_system == create_combined_fallback_system_at_threshold(in.default, in.secondary, t)
    IN  IF AccuracyRaises(in.default, scalars) \/ AccuracyRaises(in.secondary, scalars)
        THEN Raised
        ELSE Returned([n \in 1..Len(best_system) |->
                 [AnsweringSystem |-> best_system[n].System,
                  System |-> <<default_system, "FALLBACK", secondary_system, "AT", Str4(t)>>,
                  Question |-> best_system[n].Question, Answer |-> best_system[n].Answer,
                  Confidence |-> standardize_confidence(best_system, best_system[n],
                                                        "rank", AnyScalars),
                  InPurview |-> best_system[n].InPurview, Correct |-> best_system[n].Correct,
                  Frequency |-> best_system[n].Frequency, Missing |-> best_system[n].Missing,
                  Percentile |-> best_system[n].Percentile]])

----------------------------------------------------------------------------
(* The combiners applied to a collated table *)

CStat(op, raised, threshold, scalars) ==
    [op |-> op, raised |-> raised, default |-> SystemNames[1],
     secondary |-> SystemNames[2], threshold |-> threshold, scalars |-> scalars]

Oracle ==
    /\ cstat.op = "none"
    /\ LET r == oracle_combination(systems_data, SystemNames, "Oracle")
       IN  /\ combined' = r.rows
           /\ cstat' = CStat("oracle", r.raised, Zero, AnyScalars)
    /\ UNCHANGED <<systems_data, offComboVars>>

Voting(scalars) ==
    /\ cstat.op = "none"
    /\ LET r == voting_router(systems_data, SystemNames, "Voting", scalars)
       IN  /\ combined' = r.rows
           /\ cstat' = CStat("voting", r.raised, Zero, scalars)
    /\ UNCHANGED <<systems_data, offComboVars>>

\* One pass of the threshold loop of fallback_combination: the combination
\* of the two systems, restricted to their common questions, at threshold t.
FallbackAt(t) ==
    /\ cstat.op = "none"
    /\ LET in == Intersecting(systems_data, SystemNames[1], SystemNames[2])
       IN  combined' = create_combined_fallback_system_at_threshold(in.default, in.secondary, t)
    /\ cstat' = CStat("fallback_at", FALSE, t, AnyScalars)
    /\ UNCHANGED <<systems_data, offComboVars>>

Fallback(scalars) ==
    /\ cstat.op = "none"
    /\ LET r == fallback_combination(systems_data, SystemNames[1], SystemNames[2], scalars)
           in == Intersecting(systems_data, SystemNames[1], SystemNames[2])
       IN  /\ combined' = r.rows
           /\ cstat' = CStat("fallback", r.raised, best_threshold(in, scalars), scalars)
    /\ UNCHANGED <<systems_data, offComboVars>>

InitCombo ==
    /\ NoStore /\ NoRun /\ RetryIdle /\ NoJson /\ NoPau /\ NoCorpus
    /\ pc = "combo"
    /\ names = {}
    /\ systems_data \in Tables
    /\ combined = <<>>
    /\ cstat = [op |-> "none", raised |-> FALSE]

NextCombo ==
    \/ Oracle
    \/ \E scalars \in Scalars : Voting(scalars)
    \/ \E t \in Confidences \cup {Zero} : FallbackAt(t)
    \/ \E scalars \in Scalars : Fallback(scalars)

SpecCombo == InitCombo /\ [][NextCombo]_vars

----------------------------------------------------------------------------
(* Claims on the combiners *)

\* The system s has a row with no missing field for the question q.
Answered(s, q) ==
    \E n \in 1..Len(systems_data) :
        /\ systems_data[n].System = s /\ systems_data[n].Question = q
        /\ ~systems_data[n].Missing

\* The row of the system s for the question q in the collated table.
InputRow(s, q) ==
    systems_data[CHOOSE n \in 1..Len(systems_data) :
        systems_data[n].System = s /\ systems_data[n].Question = q]

Contributing == {SystemNames[j] : j \in 1..Len(SystemNames)}

\* The questions answered by all the contributing systems.
Shared == {q \in Questions : \A s \in Contributing : Answered(s, q)}

OracleReturned == cstat.op = "oracle" /\ ~cstat.raised

\* C15: for every question answered by all contributing systems, the oracle
\* row is correct iff at least one contributing system is correct on the
\* question, and in purview iff every contributing system marks it in purview.
C15_OracleCorrectAnyPurviewAll ==
    OracleReturned =>
        \A q \in Shared : \A n \in 1..Len(combined) :
            combined[n].Question = q =>
                /\ combined[n].Correct <=> \E s \in Contributing : InputRow(s, q).Correct
                /\ combined[n].InPurview <=> \A s \in Contributing : InputRow(s, q).InPurview

\* The oracle returned a row for a question on which the systems disagree
\* both on correctness and on purview.
C15_Witness ==
    /\ OracleReturned
    /\ \E q \in Shared : \E n \in 1..Len(combined) :
        /\ combined[n].Question = q
        /\ InputRow("A", q).Correct # InputRow("B", q).Correct
        /\ InputRow("A", q).InPurview # InputRow("B", q).InPurview

\* The rank-standardized confidence of the system s on the question q, over
\* the rows of s that miss no field.
Standardized(s, q) ==
    standardize_confidence(SystemRows(drop_missing(systems_data), s), InputRow(s, q),
                           "rank", AnyScalars)

CorrectSystems(q) == {s \in Contributing : InputRow(s, q).Correct}

\* C16: for every shared question on which the oracle is correct, the oracle's
\* confidence is the greatest rank-standardized confidence among the systems
\* that were correct on the question, and its answering system is a system
\* that was correct on the question and attains that confidence.
C16_OracleConfidenceOfCorrect ==
    OracleReturned =>
        \A q \in Shared : \A n \in 1..Len(combined) :
            (combined[n].Question = q /\ combined[n].Correct) =>
                /\ combined[n].AnsweringSystem \in CorrectSystems(q)
                /\ combined[n].Confidence = Standardized(combined[n].AnsweringSystem, q)
                /\ \A s \in CorrectSystems(q) :
                       FracGeq(combined[n].Confidence, Standardized(s, q))

\* The number of shared questions the oracle, and the system s, got right.
OracleCorrectCount ==
    Cardinality({n \in 1..Len(combined) : combined[n].Question \in Shared /\ combined[n].Correct})
SystemCorrectCount(s) == Cardinality({q \in Shared : InputRow(s, q).Correct})

\* C17: over the questions shared by all contributing systems, the oracle
\* answers at least as many questions correctly as each contributing system.
C17_OracleCorrectLowerBound ==
    OracleReturned =>
        \A s \in Contributing : OracleCorrectCount >= SystemCorrectCount(s)

\* Each system is right on some shared question and the oracle on more
\* questions than either of them.
C17_Witness ==
    /\ OracleReturned
    /\ \A s \in Contributing :
        SystemCorrectCount(s) >= 1 /\ OracleCorrectCount > SystemCorrectCount(s)

\* C18: the output of oracle_combination and of voting_router has exactly one
\* row for each question answered by all the named systems, rows with missing
\* fields not counting as answers, and no row for any other question.
C18_OneRowPerSharedQuestion ==
    (cstat.op \in {"oracle", "voting"} /\ ~cstat.raised) =>
        \A q \in Questions :
            Cardinality({n \in 1..Len(combined) : combined[n].Question = q})
                = IF q \in Shared THEN 1 ELSE 0

\* voting_router returned rows for a table in which one system answered a
\* question the other did not answer, or answered with a missing field.
C18_Witness ==
    /\ cstat.op = "voting" /\ ~cstat.raised
    /\ Shared # {}
    /\ \E q \in Questions \ Shared : \E n \in 1..Len(systems_data) :
        systems_data[n].Question = q /\ systems_data[n].Missing
    /\ \E q \in Questions \ Shared : \E s \in Contributing : Answered(s, q)

\* The system s has a row for the question q.
HasRow(s, q) ==
    \E n \in 1..Len(systems_data) :
        systems_data[n].System = s /\ systems_data[n].Question = q

\* The questions answered by both the default and the secondary system.
Both == {q \in Questions : HasRow(cstat.default, q) /\ HasRow(cstat.secondary, q)}

\* The system a row of a fallback combination was taken from.
Origin(row) == IF cstat.op = "fallback" THEN row.AnsweringSystem ELSE row.System

FallbackReturned == cstat.op \in {"fallback_at", "fallback"} /\ ~cstat.raised

\* C19: at threshold t the fallback combination has exactly one row for each
\* question answered by both systems, the default system's row when the
\* default system's confidence on the question is >= t and the secondary
\* system's row otherwise, and no row for any other question.
C19_FallbackRows ==
    FallbackReturned =>
        \A q \in Questions :
            LET rows == {n \in 1..Len(combined) : combined[n].Question = q}
            IN  IF q \notin Both THEN rows = {}
                ELSE /\ Cardinality(rows) = 1
                     /\ \A n \in rows :
                         LET from == IF FracGeq(InputRow(cstat.default, q).Confidence,
                                                cstat.threshold)
                                     THEN cstat.default ELSE cstat.secondary
                         IN  /\ Origin(combined[n]) = from
                             /\ combined[n].Answer = InputRow(from, q).Answer
                             /\ combined[n].InPurview = InputRow(from, q).InPurview
                             /\ combined[n].Correct = InputRow(from, q).Correct

\* At the threshold, one shared question falls back to the secondary system
\* and the default system is confident on a question only it answered.
C19_Witness ==
    /\ cstat.op = "fallback_at"
    /\ \E n \in 1..Len(combined) :
        combined[n].Question \in Both /\ combined[n].System = cstat.secondary
    /\ \E q \in Questions \ Both :
        HasRow(cstat.default, q) /\ FracGeq(InputRow(cstat.default, q).Confidence, cstat.threshold)

\* The candidate thresholds of the search, in enumeration order, and the
\* precision of the combination at each of them.
Candidates == unique_confidences(Intersecting(systems_data, cstat.default, cstat.secondary))
CombinedPrecision(t) ==
    LET in == Intersecting(systems_data, cstat.default, cstat.secondary)
    IN  precision(create_combined_fallback_system_at_threshold(in.default, in.secondary, t),
                  Zero, cstat.scalars)

\* The precision x is at least the precision y, None and nan being below
\* every number.
PrecisionGeq(x, y) ==
    \/ y \in {NoPrecision, NotANumber}
    \/ (x \notin {NoPrecision, NotANumber} /\ FracGeq(x, y))

\* The position of the first candidate whose precision no candidate exceeds.
FirstBest ==
    CHOOSE n \in 1..Len(Candidates) :
        /\ \A m \in 1..Len(Candidates) :
               PrecisionGeq(CombinedPrecision(Candidates[n]), CombinedPrecision(Candidates[m]))
        /\ \A m \in 1..(n - 1) :
               ~PrecisionGeq(CombinedPrecision(Candidates[m]), CombinedPrecision(Candidates[n]))

\* C20: the threshold fallback_combination selects is one of the distinct
\* confidence values of the default system, its combined precision is at
\* least that of every other candidate, and among the candidates of maximal
\* precision it is the first in enumeration order.
C20_BestThresholdFirstFound ==
    (cstat.op = "fallback" /\ ~cstat.raised) =>
        /\ \E n \in 1..Len(Candidates) : Candidates[n] = cstat.threshold
        /\ cstat.threshold = Candidates[FirstBest]

\* The precision-grounded confidence of the system s on the question q, over
\* the rows of s that miss no field.
PrecisionGrounded(s, q) ==
    standardize_confidence(SystemRows(drop_missing(systems_data), s), InputRow(s, q),
                           "precision", cstat.scalars)

\* C21: for every shared question, voting_router's answering system is a
\* system with the greatest precision-grounded confidence on the question, and
\* the voting row's answer, correctness and confidence are those of that
\* system's row for the question.
C21_VotingRowOfWinner ==
    (cstat.op = "voting" /\ ~cstat.raised) =>
        \A q \in Shared : \A n \in 1..Len(combined) :
            combined[n].Question = q =>
                LET w == combined[n].AnsweringSystem
                IN  /\ w \in Contributing
                    /\ PrecisionGrounded(w, q) \notin {NoPrecision, NotANumber}
                    /\ \A s \in Contributing :
                           PrecisionGeq(PrecisionGrounded(w, q), PrecisionGrounded(s, q))
                    /\ combined[n].Confidence = PrecisionGrounded(w, q)
                    /\ combined[n].Answer = InputRow(w, q).Answer
                    /\ combined[n].Correct = InputRow(w, q).Correct

----------------------------------------------------------------------------
(* metrics.py applied to the judgments of one system *)

\* metrics.questions_attempted
questions_attempted(judgments, t, scalars) ==
    LET s == SelectSeq(judgments, LAMBDA r : FracGeq(r.Confidence, t))
    IN  Divide(SelectSeq(s, LAMBDA r : r.InPurview),
               SelectSeq(judgments, LAMBDA r : r.InPurview), scalars)

\* sort_values(ascending=False).unique(): the distinct values, greatest first.
RECURSIVE Descending(_)
Descending(values) ==
    IF values = {} THEN <<>>
    ELSE LET top == CHOOSE x \in values : \A y \in values : FracGeq(x, y)
         IN  <<top>> \o Descending(values \ {top})

\* metrics.confidence_thresholds
confidence_thresholds(judgments, add_max) ==
    LET ts == Descending({judgments[n].Confidence : n \in 1..Len(judgments)})
    IN  IF add_max THEN <<Infinity>> \o ts ELSE ts

\* The judgments of one system: for each question no row or a judged row.
Judgments ==
    {SelectSeq([q \in Questions |-> CollatedRow(SystemNames[1], q, cells[q], freq[q])],
               LAMBDA r : r.Confidence # Zero) :
        cells \in [Questions -> {c \in Cells : c = AbsentCell \/ ~c.m}],
        freq \in [Questions -> Frequencies]}

\* The thresholds the metrics are asked at.
Thresholds == Confidences \cup {Zero, Infinity}

StandardizeRank ==
    /\ cstat.op = "none"
    /\ combined' = [n \in 1..Len(systems_data) |->
           standardize_confidence(systems_data, systems_data[n], "rank", AnyScalars)]
    /\ cstat' = CStat("standardize", FALSE, Zero, AnyScalars)
    /\ UNCHANGED <<systems_data, offComboVars>>

Precision(t, scalars) ==
    /\ cstat.op = "none"
    /\ combined' = <<precision(systems_data, t, scalars)>>
    /\ cstat' = CStat("precision", FALSE, t, scalars)
    /\ UNCHANGED <<systems_data, offComboVars>>

QuestionsAttempted(t, scalars) ==
    /\ cstat.op = "none"
    /\ combined' = <<questions_attempted(systems_data, t, scalars)>>
    /\ cstat' = CStat("questions_attempted", FALSE, t, scalars)
    /\ UNCHANGED <<systems_data, offComboVars>>

ConfidenceThresholds(add_max) ==
    /\ cstat.op = "none"
    /\ combined' = confidence_thresholds(systems_data, add_max)
    /\ cstat' = CStat("confidence_thresholds", FALSE, Zero, AnyScalars)
    /\ UNCHANGED <<systems_data, offComboVars>>

InitMetrics ==
    /\ NoStore /\ NoRun /\ RetryIdle /\ NoJson /\ NoPau /\ NoCorpus
    /\ pc = "metrics"
    /\ names = {}
    /\ systems_data \in Judgments
    /\ combined = <<>>
    /\ cstat = [op |-> "none", raised |-> FALSE]

NextMetrics ==
    \/ StandardizeRank
    \/ \E t \in Thresholds, scalars \in Scalars : Precision(t, scalars)
    \/ \E t \in Thresholds, scalars \in Scalars : QuestionsAttempted(t, scalars)
    \/ \E add_max \in BOOLEAN : ConfidenceThresholds(add_max)

SpecMetrics == InitMetrics /\ [][NextMetrics]_vars

----------------------------------------------------------------------------
(* Claims on the metrics *)

\* C22: the rank-mode standardized confidences of one system all lie in
\* (0, 1], rows of equal raw confidence get equal standardized confidence,
\* and a row of smaller or equal raw confidence never gets a greater one.
C22_RankStandardization ==
    cstat.op = "standardize" =>
        /\ Len(combined) = Len(systems_data)
        /\ \A n \in 1..Len(combined) :
            FracLess(Zero, combined[n]) /\ FracGeq(Frac(1, 1), combined[n])
        /\ \A n, m \in 1..Len(combined) :
            /\ systems_data[n].Confidence = systems_data[m].Confidence
                   => combined[n] = combined[m]
            /\ FracGeq(systems_data[m].Confidence, systems_data[n].Confidence)
                   => FracGeq(combined[m], combined[n])

\* Two rows of different raw confidence got different standardized
\* confidences.
C22_Witness ==
    /\ cstat.op = "standardize"
    /\ \E n, m \in 1..Len(combined) :
        /\ FracLess(systems_data[n].Confidence, systems_data[m].Confidence)
        /\ FracLess(combined[n], combined[m])

\* The in-purview rows of the judgments with a confidence of at least t.
InPurviewAt(t) ==
    {n \in 1..Len(systems_data) :
        systems_data[n].InPurview /\ FracGeq(systems_data[n].Confidence, t)}

\* C23: precision(judgments, t) returns None, not 0 and not an exception,
\* whenever no in-purview row has a confidence >= t, and
\* questions_attempted(judgments, t) returns None when the judgments have no
\* in-purview row at all.
C23_UndefinedIsNone ==
    /\ (cstat.op = "precision" /\ InPurviewAt(cstat.threshold) = {})
           => (~cstat.raised /\ combined = <<NoPrecision>>)
    /\ (cstat.op = "questions_attempted" /\ InPurviewAt(Zero) = {})
           => (~cstat.raised /\ combined = <<NoPrecision>>)

\* The rows of the judgments that have the highest confidence.
TopRows ==
    SelectSeq(systems_data, LAMBDA r :
        \A m \in 1..Len(systems_data) : FracGeq(r.Confidence, systems_data[m].Confidence))

\* precision was asked at the highest confidence of the judgments, and a row
\* that has it is in purview.
PrecisionAtMax ==
    /\ cstat.op = "precision" /\ ~cstat.raised
    /\ \E n \in 1..Len(TopRows) : cstat.threshold = TopRows[n].Confidence
    /\ \E n \in 1..Len(TopRows) : TopRows[n].InPurview

AttemptedAtInfinity ==
    cstat.op = "questions_attempted" /\ ~cstat.raised /\ cstat.threshold = Infinity

\* C24 as stated: for every judgment set questions_attempted(j, +infinity) is
\* 0, and whenever the row with the highest confidence is in purview
\* precision(j, max_confidence) is greater than 0.
C24_AttemptedZeroPrecisionPositive ==
    /\ AttemptedAtInfinity => combined = <<Zero>>
    /\ PrecisionAtMax => (combined[1] # NoPrecision /\ FracLess(Zero, combined[1]))

\* C24, amended: questions_attempted(j, +infinity) is 0 for every judgment
\* set whose in-purview rows have a positive total frequency and None for
\* the others; whenever a row with the highest confidence is in purview,
\* precision(j, max_confidence) is a number if the in-purview rows of that
\* confidence have a positive total frequency, greater than 0 exactly when
\* the correct rows of that confidence have one, and is no number (None, nan
\* or inf) if they have not.
C24_AttemptedZeroPrecisionDefined ==
    /\ AttemptedAtInfinity =>
           combined = <<IF SumFrequency(SelectSeq(systems_data, LAMBDA r : r.InPurview)) > 0
                        THEN Zero ELSE NoPrecision>>
    /\ PrecisionAtMax =>
           IF SumFrequency(SelectSeq(TopRows, LAMBDA r : r.InPurview)) > 0
           THEN /\ combined[1] \notin {NoPrecision, NotANumber, Infinity}
                /\ FracLess(Zero, combined[1])
                       <=> SumFrequency(SelectSeq(TopRows, LAMBDA r : r.Correct)) > 0
           ELSE combined[1] \in {NoPrecision, NotANumber, Infinity}

\* C24 witness: precision at the highest confidence, which two in-purview
\* rows of positive frequency have, one of them correct and one not.
C24_Witness ==
    /\ PrecisionAtMax
    /\ Len(TopRows) = 2
    /\ \A n \in 1..2 : TopRows[n].InPurview /\ TopRows[n].Frequency > 0
    /\ \E n \in 1..2 : TopRows[n].Correct
    /\ \E n \in 1..2 : ~TopRows[n].Correct
    /\ FracLess(Zero, combined[1]) /\ FracLess(combined[1], Frac(1, 1))

----------------------------------------------------------------------------
(* Further claims on the DataFrameCheckpoint *)

\* C25: a DataFrameCheckpoint can be opened on the file a hard-killed run
\* left behind, the empty file of a run killed before its first flush
\* included: no start of a run fails on a file that exists and is empty.
C25_EmptyFileOpens ==
    ~(pc = "open_failed" /\ fileExists /\ file = <<>>)

\* C28: a store with flush interval n holds fewer than n records in its
\* buffer whenever no call is in progress, so that fewer than n written
\* records are unpersisted at a kill; a write on a store with interval None
\* adds nothing to the file.  Checked under SpecStore.
C28_BufferBelowInterval ==
    /\ []((output_file = "open" /\ interval # None) => Len(buffer) < interval)
    /\ [][(output_file = "open" /\ interval = None /\ written' # written)
             => (file' = file /\ Len(buffer') = Len(buffer) + 1)]_vars

\* C28 witness: the second write on a store with interval 2 has just flushed
\* both records.
C28_Witness ==
    /\ output_file = "open"
    /\ interval = 2
    /\ lastOp.op = "flush"
    /\ lastOp.buffered = 2
    /\ buffer = <<>>

----------------------------------------------------------------------------
(* get_items over a PauCheckpoint / TrecFileCheckpoint *)

\* What get_item returns for an invalid item.
NoneItem == [type |-> "none", text |-> ""]

\* PauCheckpoint(filename, interval): invalid = 0, then the constructor of
\* DataFrameCheckpoint; get_items computes the work list.
PauStart(iv) ==
    /\ pc \in Stopped
    /\ runs < MaxRuns
    /\ invalid' = 0
    /\ OpenStore(iv)
    /\ names_to_get' = NamesToGet(names, recovered')
    /\ i' = 1
    /\ asked' = <<>>
    /\ completed' = {}
    /\ written' = <<>>
    /\ runs' = runs + 1
    /\ pc' = "loop"
    /\ lastOp' = NoOp("open")
    /\ UNCHANGED <<names, runner, item, headerWrites, nones, offPauVars>>

\* item = get_item(name) returns a PAU.
PauGetItem ==
    /\ pc = "loop"
    /\ i <= Len(names_to_get)
    /\ names_to_get[i] \notin nones
    /\ GetItem

\* item = get_item(name) returns None.
PauGetItemNone ==
    /\ pc = "loop"
    /\ i <= Len(names_to_get)
    /\ names_to_get[i] \in nones
    /\ ~LogTestRaises
    /\ item' = NoneItem
    /\ asked' = Append(asked, names_to_get[i])
    /\ completed' = completed \cup {names_to_get[i]}
    /\ pc' = "write_none"
    /\ UNCHANGED <<storeVars, histVars, names, runner, names_to_get, i, written, runs,
                   offStoreVars>>

\* A checkpoint that writes the None item like any other.
PauWriteNone_Writes ==
    /\ pc = "write_none"
    /\ write(<<names_to_get[i], item>>)
    /\ written' = Append(written, ToCsvRow(<<names_to_get[i], item>>))
    /\ i' = i + 1
    /\ pc' = "loop"
    /\ UNCHANGED <<fileExists, output_file, recovered, interval, openedExisting, names, runner,
                   names_to_get, item, asked, completed, runs, offStoreVars>>

\* checkpoint.write(name, None): only invalid is counted.
PauWriteNone ==
    /\ pc = "write_none"
    /\ invalid' = invalid + 1
    /\ i' = i + 1
    /\ pc' = "loop"
    /\ UNCHANGED <<storeVars, histVars, names, runner, names_to_get, item, asked, completed,
                   written, runs, nones, offPauVars>>

\* The process is hard-killed between get_item and checkpoint.write(name, None).
PauKillNone ==
    /\ pc = "write_none"
    /\ pc' = "killed"
    /\ output_file' = "none"
    /\ buffer' = <<>>
    /\ lastOp' = NoOp("kill")
    /\ UNCHANGED <<fileExists, file, recovered, need_header, interval, headerWrites,
                   openedExisting, flushes, names, runner, names_to_get, i, item, asked,
                   completed, written, runs, offStoreVars>>

InitPau ==
    /\ NoStore /\ NoRun /\ RetryIdle /\ NoJson /\ NoCombo /\ NoCorpus
    /\ pc = "idle"
    /\ names \in SUBSET Items
    /\ nones \in SUBSET names
    /\ invalid = 0

NextPau ==
    \/ \E iv \in Intervals : PauStart(iv)
    \/ StartFails
    \/ LogTestFails
    \/ PauGetItem
    \/ PauGetItemNone
    \/ GetItemRaises
    \/ Write
    \/ PauWriteNone
    \/ Finish
    \/ Kill
    \/ PauKillNone
    \/ \E n \in 1..(MaxInterval + 1) : KillMidFlush(n)

SpecPau == InitPau /\ [][NextPau]_vars

----------------------------------------------------------------------------
(* Claims about the PauCheckpoint, checked under SpecPau *)

\* The last n lines of the file.
LastLines(lines, n) == SubSeq(lines, Len(lines) - n + 1, Len(lines))

\* C29: an item whose get_item returns None is never written to the file:
\* no line of the file has its key, every run has it in its work list again,
\* and a completed run has added to the file exactly the rows of its items
\* whose result was not None, counting the others in invalid.
C29_NoneNeverWritten ==
    /\ \A x \in nones : x.text \notin PersistedKeys(file)
    /\ (pc \in {"loop", "write", "write_none", "done"}) =>
           \A x \in nones : \E n \in 1..Len(names_to_get) : names_to_get[n] = x
    /\ pc = "done" =>
           /\ {written[n][1] : n \in 1..Len(written)} = {x.text : x \in completed \ nones}
           /\ Len(written) = Cardinality(completed \ nones)
           /\ Len(file) >= Len(written)
           /\ LastLines(file, Len(written)) = written
           /\ invalid = Cardinality(completed \cap nones)

\* C29 witness: a second run, which recovered keys from the file, has
\* completed with a None item and a written item.
C29_Witness ==
    /\ pc = "done"
    /\ runs >= 2
    /\ recovered # {}
    /\ completed \cap nones # {}
    /\ completed \ nones # {}

----------------------------------------------------------------------------
(* download_corpus_from_xmgr under retry *)

\* str(document_id) for the document ids 1, 2, ...
DocText == <<"1", "2", "3", "4", "5">>

\* str(len(paus))
CountText(n) == <<"0", "1", "2">>[n + 1]

\* The ids of the PAUs xmgr.get_paus_from_document returns for each document.
PauIds == <<<<"p11">>, <<"p21", "p22">>, <<>>, <<"p41">>, <<"p51", "p52">>>>

\* read_csv of a column of integer texts gives the integers back.
ParseInt(t) == CHOOSE d \in 1..Len(DocText) : DocText[d] = t

DOCUMENT_ID == "Document Id"
ANSWER_ID   == "Answer Id"
DocumentIdsColumns == <<DOCUMENT_ID, "Paus">>
CorpusColumns      == <<ANSWER_ID, DOCUMENT_ID>>

\* The corpus rows of one document: the values of corpus.write, PAU by PAU.
PauRows(d) == [k \in 1..Len(PauIds[d]) |-> <<PauIds[d][k], DocText[d]>>]

\* The corpus rows of the documents 1..d, sorted by document id and answer id.
RECURSIVE RowsUpTo(_)
RowsUpTo(d) == IF d = 0 THEN <<>> ELSE RowsUpTo(d - 1) \o PauRows(d)

\* sorted(S) for a set S of document ids
SortedIds(S) == SelectSeq([d \in 1..MaxDocuments |-> d], LAMBDA d : d \in S)

\* sorted(set(document["id"] ...))[:max_docs]
Requested ==
    IF max_docs = None THEN 1..MaxDocuments
    ELSE {d \in 1..MaxDocuments : d <= max_docs}

\* The keys read_csv(open(f), usecols=[0]) finds in column 0.
Column0Texts(f) == {f.lines[n][1] : n \in 2..Len(f.lines)}

\* read_csv raises ValueError on a file without any line.
Readable(f) == ~f.exists \/ f.lines # <<>>

\* DataFrameCheckpoint(output_filename, columns, interval) on the file f, whose
\* column 0 reads as keys; open(output_filename, "a") creates the file.
OpenCheckpoint(f, iv, keys) ==
    [cp |-> [output_file |-> "open",
             recovered   |-> IF f.exists THEN keys ELSE {},
             need_header |-> ~f.exists,
             buffer      |-> <<>>,
             interval    |-> iv],
     f  |-> [exists |-> TRUE, lines |-> f.lines]]

\* DataFrameCheckpoint.flush
CheckpointFlush(cp, f, columns) ==
    [cp |-> [cp EXCEPT !.buffer = <<>>, !.need_header = FALSE],
     f  |-> [f EXCEPT !.lines = f.lines
                          \o (IF cp.need_header THEN <<columns>> ELSE <<>>)
                          \o cp.buffer]]

\* DataFrameCheckpoint.write(*values)
CheckpointWrite(cp, f, columns, values) ==
    LET b == [cp EXCEPT !.buffer = Append(cp.buffer, values)]
    IN  IF cp.interval # None /\ Len(b.buffer) % cp.interval = 0
        THEN CheckpointFlush(b, f, columns)
        ELSE [cp |-> b, f |-> f]

\* A close that only closes the file and drops the buffer.
CheckpointClose_NoFlush(cp, f, columns) ==
    [cp |-> [cp EXCEPT !.output_file = "closed", !.buffer = <<>>], f |-> f]

\* DataFrameCheckpoint.close
CheckpointClose(cp, f, columns) ==
    LET r == CheckpointFlush(cp, f, columns)
    IN  [cp |-> [r.cp EXCEPT !.output_file = "closed"], f |-> r.f]

\* What the steps of the download leave alone.
offDownloadVars == <<offCorpusVars, names, runner, names_to_get, item, asked, completed,
                     written, k0, fails, rpc>>

\* The positions inside one call of download_corpus_from_xmgr.
InCall == {"call", "open_corpus", "loop", "get", "write_paus", "write_id",
           "close_ids", "close_corpus", "raised_close_ids", "raised_close_corpus",
           "dedupe", "remove"}

\* start = len(downloaded_document_ids.recovered) + 1
start == Cardinality(downloaded_document_ids.recovered) + 1

\* The document of iteration i of enumerate(document_ids, start).
Document == document_ids[i - start + 1]

\* The download command starts: retry(closure, args.retries).
BeginDownload(k, frequency, docs) ==
    /\ pc \in {"idle", "returned", "gave_up", "killed"}
    /\ runs < MaxProcesses
    /\ runs' = runs + 1
    /\ times' = k
    /\ checkpoint_frequency' = frequency
    /\ max_docs' = docs
    /\ calls' = 0
    /\ sleeps' = 0
    /\ pc' = "call"
    /\ UNCHANGED <<i, diskVars, downloaded_document_ids, corpus, document_ids, fetched,
                   offDownloadVars>>

\* retry: the function raised.  With times None the exception leaves retry;
\* otherwise times is decremented and the function called again after a
\* sleep, unless no attempt is left.
RetryExcept ==
    IF times = None
    THEN /\ pc' = "gave_up"
         /\ UNCHANGED <<times, sleeps>>
    ELSE /\ times' = times - 1
         /\ sleeps' = IF times - 1 # 0 THEN sleeps + 1 ELSE sleeps
         /\ pc' = IF times - 1 # 0 THEN "call" ELSE "gave_up"

\* The early return of download_corpus_from_xmgr: "Corpus already downloaded".
AlreadyDownloaded ==
    /\ pc = "call"
    /\ corpus_csv.exists /\ ~document_ids_csv.exists
    /\ calls' = calls + 1
    /\ pc' = "returned"
    /\ UNCHANGED <<i, runs, times, sleeps, corpusVars, offDownloadVars>>

\* xmgr.get_documents() raises.
GetDocumentsRaises ==
    /\ pc = "call"
    /\ ~(corpus_csv.exists /\ ~document_ids_csv.exists)
    /\ calls' = calls + 1
    /\ RetryExcept
    /\ UNCHANGED <<i, runs, corpusVars, offDownloadVars>>

\* xmgr.get_documents() returns and the checkpoint on document_ids.csv is
\* constructed.
OpenDocumentIds ==
    /\ pc = "call"
    /\ ~(corpus_csv.exists /\ ~document_ids_csv.exists)
    /\ Readable(document_ids_csv)
    /\ LET r == OpenCheckpoint(document_ids_csv, checkpoint_frequency,
                               {ParseInt(t) : t \in Column0Texts(document_ids_csv)})
       IN  /\ downloaded_document_ids' = r.cp
           /\ document_ids_csv' = r.f
    /\ calls' = calls + 1
    /\ pc' = "open_corpus"
    /\ UNCHANGED <<i, runs, times, sleeps, corpus_csv, corpus, document_ids,
                   checkpoint_frequency, max_docs, fetched, offDownloadVars>>

\* The constructor of the checkpoint on document_ids.csv raises
\* "Cannot recover data".
OpenDocumentIdsFails ==
    /\ pc = "call"
    /\ ~(corpus_csv.exists /\ ~document_ids_csv.exists)
    /\ ~Readable(document_ids_csv)
    /\ calls' = calls + 1
    /\ RetryExcept
    /\ UNCHANGED <<i, runs, corpusVars, offDownloadVars>>

\* The checkpoint on corpus.csv is constructed, with interval None, and the
\* work list computed.
OpenCorpus ==
    /\ pc = "open_corpus"
    /\ Readable(corpus_csv)
    /\ LET r == OpenCheckpoint(corpus_csv, None, Column0Texts(corpus_csv))
       IN  /\ corpus' = r.cp
           /\ corpus_csv' = r.f
    /\ document_ids' = SortedIds(Requested \ downloaded_document_ids.recovered)
    /\ i' = start
    /\ pc' = IF Requested \ downloaded_document_ids.recovered # {}
             THEN "loop" ELSE "close_ids"
    /\ UNCHANGED <<runs, times, calls, sleeps, document_ids_csv, downloaded_document_ids,
                   checkpoint_frequency, max_docs, fetched, offDownloadVars>>

\* The constructor of the checkpoint on corpus.csv raises: the exception
\* leaves the function before the try block, nothing is closed.
OpenCorpusFails ==
    /\ pc = "open_corpus"
    /\ ~Readable(corpus_csv)
    /\ downloaded_document_ids' = NoCheckpoint
    /\ RetryExcept
    /\ UNCHANGED <<i, runs, calls, diskVars, corpus, document_ids,
                   checkpoint_frequency, max_docs, fetched, offDownloadVars>>

\* if i % checkpoint_frequency == 0 or i == start or i == m: corpus.flush()
LoopFlush ==
    /\ pc = "loop"
    /\ IF i % checkpoint_frequency = 0 \/ i = start \/ i = Len(document_ids)
       THEN LET r == CheckpointFlush(corpus, corpus_csv, CorpusColumns)
            IN  /\ corpus' = r.cp
                /\ corpus_csv' = r.f
       ELSE UNCHANGED <<corpus, corpus_csv>>
    /\ pc' = "get"
    /\ UNCHANGED <<i, runs, times, calls, sleeps, document_ids_csv,
                   downloaded_document_ids, document_ids, checkpoint_frequency,
                   max_docs, fetched, offDownloadVars>>

\* paus = xmgr.get_paus_from_document(document_id)
GetPaus ==
    /\ pc = "get"
    /\ fetched' = Append(fetched, <<runs, Document>>)
    /\ pc' = "write_paus"
    /\ UNCHANGED <<i, runs, times, calls, sleeps, diskVars, downloaded_document_ids,
                   corpus, document_ids, checkpoint_frequency, max_docs,
                   offDownloadVars>>

\* xmgr.get_paus_from_document raises: the finally clause runs.
GetPausRaises ==
    /\ pc = "get"
    /\ pc' = "raised_close_ids"
    /\ UNCHANGED <<i, runs, times, calls, sleeps, corpusVars, offDownloadVars>>

\* for pau in paus: corpus.write(...); the interval of corpus is None.
WritePaus ==
    /\ pc = "write_paus"
    /\ corpus' = [corpus EXCEPT !.buffer = corpus.buffer \o PauRows(Document)]
    /\ pc' = "write_id"
    /\ UNCHANGED <<i, runs, times, calls, sleeps, diskVars, downloaded_document_ids,
                   document_ids, checkpoint_frequency, max_docs, fetched,
                   offDownloadVars>>

\* downloaded_document_ids.write(str(document_id), str(len(paus))), then the
\* loop moves on.
WriteId ==
    /\ pc = "write_id"
    /\ LET r == CheckpointWrite(downloaded_document_ids, document_ids_csv,
                                DocumentIdsColumns,
                                <<DocText[Document], CountText(Len(PauIds[Document]))>>)
       IN  /\ downloaded_document_ids' = r.cp
           /\ document_ids_csv' = r.f
    /\ i' = i + 1
    /\ pc' = IF i - start + 1 < Len(document_ids) THEN "loop" ELSE "close_ids"
    /\ UNCHANGED <<runs, times, calls, sleeps, corpus_csv, corpus, document_ids,
                   checkpoint_frequency, max_docs, fetched, offDownloadVars>>

\* finally: downloaded_document_ids.close()
CloseIds ==
    /\ pc \in {"close_ids", "raised_close_ids"}
    /\ LET r == CheckpointClose(downloaded_document_ids, document_ids_csv,
                                DocumentIdsColumns)
       IN  /\ downloaded_document_ids' = r.cp
           /\ document_ids_csv' = r.f
    /\ pc' = IF pc = "close_ids" THEN "close_corpus" ELSE "raised_close_corpus"
    /\ UNCHANGED <<i, runs, times, calls, sleeps, corpus_csv, corpus, document_ids,
                   checkpoint_frequency, max_docs, fetched, offDownloadVars>>

\* finally: corpus.close(), after a loop that ended normally.
CloseCorpus ==
    /\ pc = "close_corpus"
    /\ LET r == CheckpointClose(corpus, corpus_csv, CorpusColumns)
       IN  /\ corpus' = r.cp
           /\ corpus_csv' = r.f
    /\ pc' = "dedupe"
    /\ UNCHANGED <<i, runs, times, calls, sleeps, document_ids_csv,
                   downloaded_document_ids, document_ids, checkpoint_frequency,
                   max_docs, fetched, offDownloadVars>>

\* The exception leaves the function after the finally clause.
AfterFinally == RetryExcept

\* finally: corpus.close(), with the exception of the service pending.
CloseCorpusRaised ==
    /\ pc = "raised_close_corpus"
    /\ LET r == CheckpointClose(corpus, corpus_csv, CorpusColumns)
       IN  /\ corpus' = r.cp
           /\ corpus_csv' = r.f
    /\ AfterFinally
    /\ UNCHANGED <<i, runs, calls, document_ids_csv, downloaded_document_ids,
                   document_ids, checkpoint_frequency, max_docs, fetched,
                   offDownloadVars>>

\* from_csv(corpus_csv).drop_duplicates(ANSWER_ID), written back in the order
\* of CorpusFileType.output_format.
Rewritten(f) ==
    <<CorpusColumns>> \o SelectSeq(RowsUpTo(Len(DocText)),
                                   LAMBDA row : row[1] \in Column0Texts(f))

\* corpus = from_csv(corpus_csv).drop_duplicates(ANSWER_ID); to_csv(corpus_csv, ...)
Dedupe ==
    /\ pc = "dedupe"
    /\ corpus_csv' = [corpus_csv EXCEPT !.lines = Rewritten(corpus_csv)]
    /\ pc' = "remove"
    /\ UNCHANGED <<i, runs, times, calls, sleeps, document_ids_csv,
                   downloaded_document_ids, corpus, document_ids,
                   checkpoint_frequency, max_docs, fetched, offDownloadVars>>

\* os.remove(document_ids_csv); the function returns and so does retry.
Remove ==
    /\ pc = "remove"
    /\ document_ids_csv' = AbsentFile
    /\ pc' = "returned"
    /\ UNCHANGED <<i, runs, times, calls, sleeps, corpus_csv, downloaded_document_ids,
                   corpus, document_ids, checkpoint_frequency, max_docs, fetched,
                   offDownloadVars>>

\* The process is hard-killed between two steps, or inside a flush before
\* any line of it has reached the disk: both buffers are lost.
KillDownload ==
    /\ pc \in InCall
    /\ pc' = "killed"
    /\ downloaded_document_ids' = NoCheckpoint
    /\ corpus' = NoCheckpoint
    /\ UNCHANGED <<i, runs, times, calls, sleeps, diskVars, document_ids,
                   checkpoint_frequency, max_docs, fetched, offDownloadVars>>

\* The process is hard-killed inside to_csv(corpus_csv, ...): the file was
\* truncated and only the first n lines of the new content have reached it.
KillInRewrite(n) ==
    /\ pc = "dedupe"
    /\ n < Len(Rewritten(corpus_csv))
    /\ corpus_csv' = [corpus_csv EXCEPT !.lines = SubSeq(Rewritten(corpus_csv), 1, n)]
    /\ pc' = "killed"
    /\ downloaded_document_ids' = NoCheckpoint
    /\ corpus' = NoCheckpoint
    /\ UNCHANGED <<i, runs, times, calls, sleeps, document_ids_csv, document_ids,
                   checkpoint_frequency, max_docs, fetched, offDownloadVars>>

\* The lines buffer.to_csv(output_file, header=need_header) of cp hands to the
\* file object.
FlushLines(cp, columns) ==
    (IF cp.need_header THEN <<columns>> ELSE <<>>) \o cp.buffer

\* The flush the step of this position is about to run, if any: the file it
\* appends to and the lines it writes.
PendingDownloadFlush ==
    IF pc = "loop" /\ (i % checkpoint_frequency = 0 \/ i = start \/ i = Len(document_ids))
    THEN [file |-> "corpus", lines |-> FlushLines(corpus, CorpusColumns)]
    ELSE IF pc \in {"close_corpus", "raised_close_corpus"}
    THEN [file |-> "corpus", lines |-> FlushLines(corpus, CorpusColumns)]
    ELSE IF pc \in {"close_ids", "raised_close_ids"}
    THEN [file |-> "ids", lines |-> FlushLines(downloaded_document_ids, DocumentIdsColumns)]
    ELSE IF pc = "write_id"
    THEN LET b == [downloaded_document_ids EXCEPT
                      !.buffer = Append(downloaded_document_ids.buffer,
                                        <<DocText[Document], CountText(Len(PauIds[Document]))>>)]
         IN  IF Len(b.buffer) % b.interval = 0
             THEN [file |-> "ids", lines |-> FlushLines(b, DocumentIdsColumns)]
             ELSE [file |-> "none", lines |-> <<>>]
    ELSE [file |-> "none", lines |-> <<>>]

\* The process is hard-killed inside DataFrameCheckpoint.flush, between
\* to_csv and output_file.flush(): only the first n lines have reached the
\* disk.
KillInFlush(n) ==
    /\ pc \in InCall
    /\ n \in 1..(Len(PendingDownloadFlush.lines) - 1)
    /\ IF PendingDownloadFlush.file = "corpus"
       THEN /\ corpus_csv' = [corpus_csv EXCEPT
                                 !.lines = corpus_csv.lines
                                             \o SubSeq(PendingDownloadFlush.lines, 1, n)]
            /\ UNCHANGED document_ids_csv
       ELSE /\ document_ids_csv' = [document_ids_csv EXCEPT
                                       !.lines = document_ids_csv.lines
                                                   \o SubSeq(PendingDownloadFlush.lines, 1, n)]
            /\ UNCHANGED corpus_csv
    /\ pc' = "killed"
    /\ downloaded_document_ids' = NoCheckpoint
    /\ corpus' = NoCheckpoint
    /\ UNCHANGED <<i, runs, times, calls, sleeps, document_ids, checkpoint_frequency,
                   max_docs, fetched, offDownloadVars>>

InitCorpus ==
    /\ NoStore /\ NoRun /\ RetryIdle /\ NoJson /\ NoCombo /\ NoPau /\ NoCorpus
    /\ pc = "idle"
    /\ names = {}

NextCorpus ==
    \/ \E k \in {None} \cup (1..MaxRetries), frequency \in 1..MaxCheckpointFrequency,
          docs \in {None} \cup (0..MaxDocuments) : BeginDownload(k, frequency, docs)
    \/ AlreadyDownloaded
    \/ GetDocumentsRaises
    \/ OpenDocumentIds
    \/ OpenDocumentIdsFails
    \/ OpenCorpus
    \/ OpenCorpusFails
    \/ LoopFlush
    \/ GetPaus
    \/ GetPausRaises
    \/ WritePaus
    \/ WriteId
    \/ CloseIds
    \/ CloseCorpus
    \/ CloseCorpusRaised
    \/ Dedupe
    \/ Remove
    \/ KillDownload
    \/ \E n \in 0..Len(RowsUpTo(Len(DocText))) : KillInRewrite(n)
    \/ \E n \in 1..Len(RowsUpTo(Len(DocText))) : KillInFlush(n)

SpecCorpus == InitCorpus /\ [][NextCorpus]_vars

----------------------------------------------------------------------------
(* Claims about the corpus download, checked under SpecCorpus *)

\* The document ids persisted in document_ids.csv.
PersistedDocs == {ParseInt(t) : t \in Column0Texts(document_ids_csv)}

\* All PAUs of document d are persisted in corpus.csv.
CorpusHas(d) == \A k \in 1..Len(PauIds[d]) : PauIds[d][k] \in Column0Texts(corpus_csv)

\* The documents whose PAUs some process has got.
FetchedDocs == {fetched[n][2] : n \in 1..Len(fetched)}

\* C26: wherever the download is hard-killed, every document id persisted in
\* document_ids.csv has all of its PAUs persisted in corpus.csv.
C26_PersistedIdsHavePaus ==
    pc = "killed" => \A d \in PersistedDocs : CorpusHas(d)

\* C27: under retry, once an attempt has failed, every document whose PAUs
\* this process has got is persisted in both files, and no process gets the
\* PAUs of a document twice.
C27_FailedAttemptPersists ==
    /\ \A m, n \in 1..Len(fetched) : m # n => fetched[m] # fetched[n]
    /\ (pc \in {"call", "gave_up"} /\ calls > 0) =>
           \A n \in 1..Len(fetched) :
               fetched[n][1] = runs =>
                   (fetched[n][2] \in PersistedDocs /\ CorpusHas(fetched[n][2]))

\* C27 witness: the first process on an empty directory has given up after
\* two attempts, the second of which recovered a document of the first and
\* got another one.
C27_Witness ==
    /\ pc = "gave_up"
    /\ runs = 1
    /\ calls = 2
    /\ downloaded_document_ids.recovered # {}
    /\ Len(fetched) = 2

\* C30: the early return "Corpus already downloaded", which a call takes
\* when corpus.csv exists and document_ids.csv does not, is never taken for
\* an incomplete download: every requested document then has all of its
\* PAUs in corpus.csv.  (A document whose id was persisted before a kill
\* lost its PAUs is skipped by the restart, which removes document_ids.csv.)
C30_EarlyReturnIsComplete ==
    [][(pc = "call" /\ pc' = "returned") => \A d \in Requested : CorpusHas(d)]_vars

====
